---- MODULE Spec2Model ----
(***************************************************************************)
(* ExpenseOwl storage layer: the PostgreSQL store (databaseStore), the     *)
(* recurring-expense expander and the model types it works on.             *)
(*                                                                         *)
(* Time is counted in whole days since 1970-01-01 (one clock tick is one   *)
(* day); the calendar arithmetic of time.Time.AddDate is computed on the   *)
(* civil date, month and day overflow normalised as Go's time.Date does.   *)
(* Amounts are integers (minor units); their sign is what the code reads.  *)
(***************************************************************************)
EXTENDS Integers, Sequences, FiniteSets, TLC

VARIABLES
    config,             \* table config: the set of its rows (none or the 'default' row)
    defaults,           \* databaseStore.defaults, the cache map
    expenses,           \* table expenses: the committed rows
    recurring_expenses, \* table recurring_expenses: the committed rows
    now,                \* the wall clock, time.Now()
    tx,                 \* the open sql.Tx of a recurring-expense handler, if any
    result,             \* the last handler's call and what it returned
    clients             \* concurrent AddExpense calls: each one's position and locals

vars == <<config, defaults, expenses, recurring_expenses, now, tx, result, clients>>

(***************************************************************************)
(* Bounds of the model.                                                    *)
(***************************************************************************)
MaxClock == 1          \* the clock ticks at most this many days past Today0
MaxExpenses == 3       \* rows of table expenses
MaxRecurring == 2      \* rows of table recurring_expenses
MaxCounter == 1        \* voucher_counter / receipt_counter
MaxOccurrences == 3    \* largest occurrence count of a template handed to the expander
NumClients == 2        \* goroutines calling AddExpense at the same time
MaxStringLen == 4      \* longest string handed to SanitizeString
MantissaBits == 4      \* significand bits of the model's floating-point format
MaxStatementItems == 2 \* most transactions on a statement

(***************************************************************************)
(* Calendar: days since 1970-01-01 <-> civil date (proleptic Gregorian).   *)
(***************************************************************************)
DaysFromCivil(y, m, d) ==
    LET yy  == IF m <= 2 THEN y - 1 ELSE y
        era == yy \div 400
        yoe == yy - era * 400
        mp  == IF m > 2 THEN m - 3 ELSE m + 9
        doy == (153 * mp + 2) \div 5 + d - 1
        doe == yoe * 365 + yoe \div 4 - yoe \div 100 + doy
    IN  era * 146097 + doe - 719468

CivilFromDays(z0) ==
    LET z   == z0 + 719468
        era == z \div 146097
        doe == z - era * 146097
        yoe == (doe - doe \div 1460 + doe \div 36524 - doe \div 146096) \div 365
        doy == doe - (365 * yoe + yoe \div 4 - yoe \div 100)
        mp  == (5 * doy + 2) \div 153
        d   == doy - (153 * mp + 2) \div 5 + 1
        m   == IF mp < 10 THEN mp + 3 ELSE mp - 9
        y   == yoe + era * 400 + (IF m <= 2 THEN 1 ELSE 0)
    IN  [year |-> y, month |-> m, day |-> d]

\* time.Date(y, m, d, ...): month and day may be out of range and are normalised.
Date(y, m, d) ==
    LET m0 == m - 1
        yn == y + (m0 \div 12)
        mn == (m0 % 12) + 1
    IN  DaysFromCivil(yn, mn, 1) + (d - 1)

\* t.AddDate(years, months, days)
AddDate(t, years, months, days) ==
    LET c == CivilFromDays(t)
    IN  Date(c.year + years, c.month + months, c.day + days)

\* The zero time.Time, January 1 of year 1.
ZeroTime == Date(1, 1, 1)

IsZero(t) == t = ZeroTime

\* The day the clock shows when the store is constructed.
Today0 == Date(2024, 3, 15)

(***************************************************************************)
(* fmt.Sprintf("%d") and "%04d" of a non-negative integer.                 *)
(***************************************************************************)
Digit(n) ==
    CASE n = 0 -> "0" [] n = 1 -> "1" [] n = 2 -> "2" [] n = 3 -> "3" [] n = 4 -> "4"
      [] n = 5 -> "5" [] n = 6 -> "6" [] n = 7 -> "7" [] n = 8 -> "8" [] n = 9 -> "9"

RECURSIVE Itoa(_)
Itoa(n) == IF n < 10 THEN Digit(n) ELSE Itoa(n \div 10) \o Digit(n % 10)

Pad4(n) ==
    IF n < 10 THEN "000" \o Itoa(n)
    ELSE IF n < 100 THEN "00" \o Itoa(n)
    ELSE IF n < 1000 THEN "0" \o Itoa(n)
    ELSE Itoa(n)

GenerateTransactionID(isGain, counter) ==
    (IF isGain THEN "RES" ELSE "BAU") \o "-" \o Pad4(counter)

(***************************************************************************)
(* Recurrence expansion.                                                   *)
(***************************************************************************)
Intervals == {"daily", "weekly", "monthly", "yearly"}

\* One arm of the switch on recExp.Interval; the default arm is Recognised = FALSE.
Recognised(interval) == interval \in Intervals

\* A step that keeps a monthly or yearly date inside the target month, on its
\* last day when the day-of-month does not exist there.
StepDateClamped(interval, t) ==
    LET c == CivilFromDays(t)
        clamp(y, m) ==
            LET first == Date(y, m, 1)
                len   == Date(y, m + 1, 1) - first
            IN  first + (IF c.day > len THEN len ELSE c.day) - 1
    IN  CASE interval = "daily"   -> t + 1
          [] interval = "weekly"  -> t + 7
          [] interval = "monthly" -> clamp(c.year, c.month + 1)
          [] interval = "yearly"  -> clamp(c.year + 1, c.month)
          [] OTHER                -> t

StepDate(interval, t) ==
    CASE interval = "daily"   -> AddDate(t, 0, 0, 1)
      [] interval = "weekly"  -> AddDate(t, 0, 0, 7)
      [] interval = "monthly" -> AddDate(t, 0, 1, 0)
      [] interval = "yearly"  -> AddDate(t, 1, 0, 0)
      [] OTHER                -> t

\* A fast-forward loop that also steps past an occurrence dated exactly today.
RECURSIVE FastForwardInclusive(_, _, _, _)
FastForwardInclusive(recExp, today, currentDate, occurrencesToGenerate) ==
    IF currentDate <= today /\ (recExp.Occurrences = 0 \/ occurrencesToGenerate > 0)
    THEN IF ~Recognised(recExp.Interval)
         THEN [currentDate |-> currentDate, left |-> occurrencesToGenerate, stop |-> TRUE]
         ELSE FastForwardInclusive(recExp, today, StepDate(recExp.Interval, currentDate),
                                   IF recExp.Occurrences > 0 THEN occurrencesToGenerate - 1
                                   ELSE occurrencesToGenerate)
    ELSE [currentDate |-> currentDate, left |-> occurrencesToGenerate, stop |-> FALSE]

\* The fast-forward loop of fromToday: the cursor, what is left to generate, and
\* whether the default arm returned from the function.
RECURSIVE FastForward(_, _, _, _)
FastForward(recExp, today, currentDate, occurrencesToGenerate) ==
    IF currentDate < today /\ (recExp.Occurrences = 0 \/ occurrencesToGenerate > 0)
    THEN IF ~Recognised(recExp.Interval)
         THEN [currentDate |-> currentDate, left |-> occurrencesToGenerate, stop |-> TRUE]
         ELSE FastForward(recExp, today, StepDate(recExp.Interval, currentDate),
                          IF recExp.Occurrences > 0 THEN occurrencesToGenerate - 1
                          ELSE occurrencesToGenerate)
    ELSE [currentDate |-> currentDate, left |-> occurrencesToGenerate, stop |-> FALSE]

InstanceOf(recExp, currentDate) ==
    [ID |-> "", RecurringID |-> recExp.ID, Description |-> recExp.Description,
     From |-> recExp.From, To |-> recExp.To, Method |-> recExp.Method,
     Note |-> recExp.Note, Category |-> recExp.Category, Amount |-> recExp.Amount,
     Currency |-> recExp.Currency, Date |-> currentDate]

\* A materialization loop that tests the interval before appending.
RECURSIVE MaterializeCheckFirst(_, _, _)
MaterializeCheckFirst(recExp, currentDate, limit) ==
    IF limit <= 0 \/ ~Recognised(recExp.Interval) THEN <<>>
    ELSE <<InstanceOf(recExp, currentDate)>>
         \o MaterializeCheckFirst(recExp, StepDate(recExp.Interval, currentDate), limit - 1)

\* The loop "for range limit": a limit <= 0 runs no iteration.
RECURSIVE Materialize(_, _, _)
Materialize(recExp, currentDate, limit) ==
    IF limit <= 0 THEN <<>>
    ELSE IF ~Recognised(recExp.Interval) THEN <<InstanceOf(recExp, currentDate)>>
    ELSE <<InstanceOf(recExp, currentDate)>>
         \o Materialize(recExp, StepDate(recExp.Interval, currentDate), limit - 1)

generateExpensesFromRecurringShort(recExp, fromToday, today) ==
    LET ff == IF fromToday THEN FastForward(recExp, today, recExp.StartDate, recExp.Occurrences)
              ELSE [currentDate |-> recExp.StartDate, left |-> recExp.Occurrences, stop |-> FALSE]
    IN  IF ff.stop THEN <<>> ELSE Materialize(recExp, ff.currentDate, ff.left - 1)

generateExpensesFromRecurring(recExp, fromToday, today) ==
    LET ff == IF fromToday THEN FastForward(recExp, today, recExp.StartDate, recExp.Occurrences)
              ELSE [currentDate |-> recExp.StartDate, left |-> recExp.Occurrences, stop |-> FALSE]
    IN  IF ff.stop THEN <<>> ELSE Materialize(recExp, ff.currentDate, ff.left)

(***************************************************************************)
(* Model types and the values handlers are called with.                    *)
(***************************************************************************)
SupportedLanguages == {"en", "ms"}

SupportedCurrencies ==
    {"usd", "eur", "gbp", "jpy", "cny", "krw", "inr", "rub", "brl", "zar",
     "aed", "aud", "cad", "chf", "hkd", "bdt", "sgd", "thb", "try", "mxn",
     "php", "pln", "sek", "nzd", "dkk", "idr", "ils", "vnd", "myr", "mad"}

defaultCategories ==
    <<"Food", "Groceries", "Travel", "Rent", "Utilities", "Entertainment",
      "Healthcare", "Shopping", "Miscellaneous", "Income">>

\* manual_balances '{}'::jsonb: the empty map.
EmptyBalances == [c \in {} |-> 0]

\* Config.SetBaseConfig on a zero Config.
BaseConfig ==
    [Categories |-> defaultCategories, Currency |-> "usd", StartDate |-> 1,
     Language |-> "en", VoucherCounter |-> 0, ReceiptCounter |-> 0,
     OpeningBalance |-> 0, UseManualBalances |-> FALSE, ManualBalances |-> EmptyBalances]

Expense(id, recurringID, description, amount, currency, date) ==
    [ID |-> id, RecurringID |-> recurringID, Description |-> description,
     From |-> "alice", To |-> "bob", Method |-> "cash", Note |-> "n1",
     Category |-> "Rent", Amount |-> amount, Currency |-> currency, Date |-> date]

RecurringExpense(id, description, amount, currency, startDate, interval, occurrences) ==
    [ID |-> id, Description |-> description, Amount |-> amount, Currency |-> currency,
     From |-> "alice", To |-> "bob", Method |-> "cash", Note |-> "n1",
     Category |-> "Rent", StartDate |-> startDate, Interval |-> interval,
     Occurrences |-> occurrences]

\* Expenses handed to AddExpense: caller-chosen IDs, instances of template r1 before
\* and after today, and one of no template.
ExpenseInputs ==
    { Expense("e1", "r1", "rent feb", 0 - 200, "usd", Date(2024, 2, 1)),
      Expense("e2", "r1", "rent next", 0 - 200, "eur", Today0 + 1),
      Expense("e3", "", "salary", 500, "gbp", Today0) }

\* The expense handed to UpdateExpense, and the IDs it is called with.
UpdateInputs == { Expense("", "r1", "moved", 0 - 10, "jpy", Today0 + 1) }
UpdateIDs == {"e3", "zz"}

\* An expense ID no handler ever stores.
UnknownExpenseID == "zz"

\* Templates handed to AddRecurringExpense / UpdateRecurringExpense.
RecurringInputs ==
    { RecurringExpense("r1", "rent", 0 - 200, "eur", Date(2024, 1, 31), "monthly", 1),
      RecurringExpense("r1", "gym", 0 - 40, "myr", Today0 - 3, "weekly", 2),
      RecurringExpense("", "news", 0 - 5, "usd", Today0 + 1, "daily", 1) }

\* uuid.New().String(): some identifier; the model draws it from this pool.
UUIDs == {"u1"}

\* The template IDs UpdateRecurringExpense / RemoveRecurringExpense are called with:
\* "rx" is never stored.
RecurringIDs == {"r1", "u1", "rx"}
UpdateRecurringIDs == {"r1", "rx"}

IDsOf(rows) == {r.ID : r \in rows}

(***************************************************************************)
(* The state after InitializePostgresStore on an empty database.           *)
(***************************************************************************)
NoResult == [op |-> "none", err |-> "ok", id |-> "", arg |-> <<>>, val |-> <<>>]

NoRule == [ID |-> ""]

TxIdle == [pc |-> "idle", op |-> "none", id |-> "", all |-> FALSE, rule |-> NoRule,
           recurring_expenses |-> {}, expenses |-> {}, deletedAt |-> ZeroTime,
           generatedAt |-> ZeroTime, removed |-> 0, before |-> 0]

\* What a recurring-expense handler's call is recorded with: the rule as written, the
\* all flag, the time.Now() of its DELETE and of its expansion, how many rows the
\* DELETE removed, and how many rows referenced the template when it was called.
NoCall == [rule |-> NoRule, all |-> FALSE, deletedAt |-> ZeroTime, generatedAt |-> ZeroTime,
           removed |-> 0, before |-> 0]

Init ==
    /\ config = {}
    /\ defaults = [currency |-> "", start_date |-> ""]
    /\ expenses = {}
    /\ recurring_expenses = {}
    /\ now = Today0
    /\ tx = TxIdle
    /\ result = NoResult
    /\ clients = <<>>

\* The wall clock advances.
Tick ==
    /\ now < Today0 + MaxClock
    /\ now' = now + 1
    /\ UNCHANGED <<config, defaults, expenses, recurring_expenses, tx, result, clients>>

(***************************************************************************)
(* Configuration: saveConfig, GetConfig, updateConfig and the updates.     *)
(* A handler's parameter f names the statement of the call on which the    *)
(* database fails (0: none fails).                                         *)
(***************************************************************************)
Faults == 0..4

\* INSERT INTO config ... ON CONFLICT (id) DO UPDATE: the row after the upsert. The
\* columns the statement does not name take their DEFAULT on insert and keep their
\* value on update.
\* A statement that replaces the whole row: the columns it does not name fall
\* back to their defaults.
UpsertRowReplace(rows, cfg) ==
    {[categories |-> cfg.Categories, currency |-> cfg.Currency,
      start_date |-> cfg.StartDate, voucher_counter |-> 0, receipt_counter |-> 0,
      opening_balance |-> 0, use_manual_balances |-> FALSE,
      manual_balances |-> EmptyBalances]}

UpsertRow(rows, cfg) ==
    IF rows = {}
    THEN {[categories |-> cfg.Categories, currency |-> cfg.Currency,
           start_date |-> cfg.StartDate, voucher_counter |-> 0, receipt_counter |-> 0,
           opening_balance |-> 0, use_manual_balances |-> FALSE,
           manual_balances |-> EmptyBalances]}
    ELSE {[r EXCEPT !.categories = cfg.Categories, !.currency = cfg.Currency,
                    !.start_date = cfg.StartDate] : r \in rows}

\* saveConfig: the cache is written whether or not the statement succeeded.
saveConfig(rows, cfg, fail) ==
    [config   |-> IF fail THEN rows ELSE UpsertRow(rows, cfg),
     defaults |-> [currency |-> cfg.Currency, start_date |-> Itoa(cfg.StartDate)],
     err      |-> IF fail THEN "db_error" ELSE "ok"]

\* The Config GetConfig builds from the stored row: Language is not a column.
ConfigOfRow(r) ==
    [Categories |-> r.categories, Currency |-> r.currency, StartDate |-> r.start_date,
     Language |-> "", VoucherCounter |-> r.voucher_counter,
     ReceiptCounter |-> r.receipt_counter, OpeningBalance |-> r.opening_balance,
     UseManualBalances |-> r.use_manual_balances, ManualBalances |-> r.manual_balances]

\* GetConfig, as a function of the tables: the Config and error it returns, and the
\* config table and cache it leaves.
GetConfigResult(rows, dflt, f) ==
    IF f = 1 THEN [err |-> "db_error", cfg |-> BaseConfig, config |-> rows, defaults |-> dflt]
    ELSE IF rows = {}
    THEN LET sv == saveConfig(rows, BaseConfig, f = 2)
         IN  [err |-> sv.err, cfg |-> BaseConfig, config |-> sv.config, defaults |-> sv.defaults]
    ELSE LET r == CHOOSE r \in rows : TRUE
         IN  [err |-> IF f = 3 THEN "db_error" ELSE "ok", cfg |-> ConfigOfRow(r),
              config |-> rows, defaults |-> dflt]

\* updateConfig with the updater "set field to value".
updateConfig(rows, dflt, field, value, f) ==
    LET g == GetConfigResult(rows, dflt, f)
    IN  IF g.err # "ok" THEN [err |-> g.err, config |-> g.config, defaults |-> g.defaults]
        ELSE LET sv == saveConfig(g.config, [g.cfg EXCEPT ![field] = value], f = 4)
             IN  [err |-> sv.err, config |-> sv.config, defaults |-> sv.defaults]

GetConfig ==
    \E f \in Faults :
        LET g == GetConfigResult(config, defaults, f)
        IN  /\ config' = g.config
            /\ defaults' = g.defaults
            /\ result' = [op |-> "GetConfig", err |-> g.err, id |-> "", arg |-> <<>>,
                          val |-> IF g.err = "ok" THEN <<g.cfg>> ELSE <<>>]
            /\ tx.pc = "idle"
            /\ UNCHANGED <<expenses, recurring_expenses, now, tx, clients>>

\* The common shape of UpdateCurrency, UpdateStartDate and UpdateLanguage: validate,
\* then updateConfig.
UpdateField(op, field, value, valid, f) ==
    LET u == IF valid THEN updateConfig(config, defaults, field, value, f)
             ELSE [err |-> "invalid", config |-> config, defaults |-> defaults]
    IN  /\ tx.pc = "idle"
        /\ config' = u.config
        /\ defaults' = u.defaults
        /\ result' = [op |-> op, err |-> u.err, id |-> "", arg |-> <<value>>, val |-> <<>>]
        /\ UNCHANGED <<expenses, recurring_expenses, now, tx, clients>>

CurrencyInputs == {"usd", "eur", "myr", "xyz", "", "USD"}
StartDateInputs == {0 - 1, 0, 1, 5, 31, 32}
LanguageInputs == {"en", "ms", "fr", ""}

UpdateCurrencyUnchecked(currency, f) ==
    UpdateField("UpdateCurrency", "Currency", currency, TRUE, f)

UpdateCurrency(currency, f) ==
    UpdateField("UpdateCurrency", "Currency", currency, currency \in SupportedCurrencies, f)

UpdateStartDate(startDate, f) ==
    UpdateField("UpdateStartDate", "StartDate", startDate,
                ~(startDate < 1 \/ startDate > 31), f)

UpdateLanguage(language, f) ==
    UpdateField("UpdateLanguage", "Language", language, language \in SupportedLanguages, f)

\* The getters: GetConfig, then one field of what it returned.
GetField(op, field, f) ==
    LET g == GetConfigResult(config, defaults, f)
        v == IF field = "Language" /\ g.cfg.Language = "" THEN "en" ELSE g.cfg[field]
    IN  /\ tx.pc = "idle"
        /\ config' = g.config
        /\ defaults' = g.defaults
        /\ result' = [op |-> op, err |-> g.err, id |-> "", arg |-> <<>>,
                      val |-> IF g.err = "ok" THEN <<v>> ELSE <<>>]
        /\ UNCHANGED <<expenses, recurring_expenses, now, tx, clients>>

GetFaults == 0..3

GetLanguage(f) == GetField("GetLanguage", "Language", f)

GetOpeningBalance(f) == GetField("GetOpeningBalance", "OpeningBalance", f)

GetUseManualBalances(f) == GetField("GetUseManualBalances", "UseManualBalances", f)

GetManualBalances(f) == GetField("GetManualBalances", "ManualBalances", f)

\* UPDATE config SET <column> = $1 WHERE id = 'default': the statement's error is the
\* handler's; the number of rows it changed is not looked at.
UpdateColumn(op, column, value, f) ==
    /\ tx.pc = "idle"
    /\ config' = IF f = 1 THEN config ELSE {[r EXCEPT ![column] = value] : r \in config}
    /\ result' = [op |-> op, err |-> IF f = 1 THEN "db_error" ELSE "ok", id |-> "",
                  arg |-> <<value>>, val |-> <<>>]
    /\ UNCHANGED <<defaults, expenses, recurring_expenses, now, tx, clients>>

OpeningBalanceInputs == {0, 1000}
ManualBalancesInputs == {EmptyBalances, [c \in {"Rent"} |-> 250]}

UpdateOpeningBalance(balance, f) ==
    UpdateColumn("UpdateOpeningBalance", "opening_balance", balance, f)

UpdateUseManualBalances(use, f) ==
    UpdateColumn("UpdateUseManualBalances", "use_manual_balances", use, f)

UpdateManualBalances(balances, f) ==
    UpdateColumn("UpdateManualBalances", "manual_balances", balances, f)

(***************************************************************************)
(* Expenses: single-statement handlers on table expenses.                  *)
(***************************************************************************)
\* scanExpense over the columns the SELECT of GetExpense / GetAllExpenses names:
\* id, recurring_id, description, "from", "to", method, note, category, amount, date.
\* currency is not selected, so the field keeps Go's zero value.
scanExpense(row) ==
    [ID |-> row.ID, RecurringID |-> row.RecurringID, Description |-> row.Description,
     From |-> row.From, To |-> row.To, Method |-> row.Method, Note |-> row.Note,
     Category |-> row.Category, Amount |-> row.Amount, Currency |-> "", Date |-> row.Date]

\* UPDATE config SET <counter> = <counter> + 1 RETURNING <counter>, scanned into a
\* zero-initialised int with the error dropped: no row, or a failed statement,
\* leaves counter = 0.
BumpCounter(rows, isGain, fail) ==
    IF rows = {} \/ fail THEN [config |-> rows, counter |-> 0]
    ELSE LET r == CHOOSE r \in rows : TRUE
         IN  IF isGain
             THEN [config |-> {[r EXCEPT !.receipt_counter = @ + 1]},
                   counter |-> r.receipt_counter + 1]
             ELSE [config |-> {[r EXCEPT !.voucher_counter = @ + 1]},
                   counter |-> r.voucher_counter + 1]

CounterRoom(rows, isGain) ==
    \A r \in rows : (IF isGain THEN r.receipt_counter ELSE r.voucher_counter) < MaxCounter

\* The row AddExpense inserts, given the counter value it read.
ExpenseToInsert(expense, counter, dflt, today) ==
    [expense EXCEPT
        !.ID = IF @ = "" THEN GenerateTransactionID(expense.Amount > 0, counter) ELSE @,
        !.Currency = IF @ = "" THEN dflt.currency ELSE @,
        !.Date = IF IsZero(@) THEN today ELSE @]

AddExpense(expense, f) ==
    LET isGain == expense.Amount > 0
        bump   == IF expense.ID = "" THEN BumpCounter(config, isGain, f = 1)
                  ELSE [config |-> config, counter |-> 0]
        row    == ExpenseToInsert(expense, bump.counter, defaults, now)
        err    == IF f = 2 THEN "db_error"
                  ELSE IF row.ID \in IDsOf(expenses) THEN "duplicate_key" ELSE "ok"
    IN  /\ tx.pc = "idle"
        /\ expense.ID = "" => CounterRoom(config, isGain)
        /\ err = "ok" => Cardinality(expenses) < MaxExpenses
        /\ config' = bump.config
        /\ expenses' = IF err = "ok" THEN expenses \cup {row} ELSE expenses
        /\ result' = [op |-> "AddExpense", err |-> err, id |-> row.ID, arg |-> <<expense>>,
                      val |-> <<>>]
        /\ UNCHANGED <<defaults, recurring_expenses, now, tx, clients>>

UpdateExpense(id, expense, f) ==
    LET new == [expense EXCEPT !.ID = id,
                               !.Currency = IF @ = "" THEN defaults.currency ELSE @]
        err == IF f = 1 THEN "db_error"
               ELSE IF id \notin IDsOf(expenses) THEN "not_found" ELSE "ok"
    IN  /\ tx.pc = "idle"
        /\ expenses' = IF err = "ok" THEN {r \in expenses : r.ID # id} \cup {new}
                       ELSE expenses
        /\ result' = [op |-> "UpdateExpense", err |-> err, id |-> id, arg |-> <<>>,
                      val |-> <<>>]
        /\ UNCHANGED <<config, defaults, recurring_expenses, now, tx, clients>>

RemoveExpenseAny(id, f) ==
    LET err == IF f = 1 THEN "db_error" ELSE "ok"
    IN  /\ tx.pc = "idle"
        /\ expenses' = IF err = "ok" THEN {r \in expenses : r.ID # id} ELSE expenses
        /\ result' = [op |-> "RemoveExpense", err |-> err, id |-> id, arg |-> <<>>,
                      val |-> <<>>]
        /\ UNCHANGED <<config, defaults, recurring_expenses, now, tx, clients>>

RemoveExpense(id, f) ==
    LET err == IF f = 1 THEN "db_error"
               ELSE IF id \notin IDsOf(expenses) THEN "not_found" ELSE "ok"
    IN  /\ tx.pc = "idle"
        /\ expenses' = IF err = "ok" THEN {r \in expenses : r.ID # id} ELSE expenses
        /\ result' = [op |-> "RemoveExpense", err |-> err, id |-> id, arg |-> <<>>,
                      val |-> <<>>]
        /\ UNCHANGED <<config, defaults, recurring_expenses, now, tx, clients>>

\* Reads see the committed rows.
GetExpense(id, f) ==
    LET err == IF f = 1 THEN "db_error"
               ELSE IF id \notin IDsOf(expenses) THEN "not_found" ELSE "ok"
    IN  /\ tx.pc = "idle"
        /\ result' = [op |-> "GetExpense", err |-> err, id |-> id, arg |-> <<>>,
                      val |-> IF err = "ok"
                              THEN <<scanExpense(CHOOSE r \in expenses : r.ID = id)>>
                              ELSE <<>>]
        /\ UNCHANGED <<config, defaults, expenses, recurring_expenses, now, tx, clients>>

\* ORDER BY date DESC: every order of the rows that is descending by date.
NewestFirst(rows) ==
    LET n == Cardinality(rows)
    IN  {s \in [1..n -> rows] :
            /\ \A i, j \in 1..n : i # j => s[i] # s[j]
            /\ \A i \in 1..(n - 1) : s[i].Date >= s[i + 1].Date}

GetAllExpenses(f) ==
    \E s \in NewestFirst(expenses) :
        /\ tx.pc = "idle"
        /\ result' = [op |-> "GetAllExpenses", err |-> IF f = 1 THEN "db_error" ELSE "ok",
                      id |-> "", arg |-> <<>>,
                      val |-> IF f = 1 THEN <<>> ELSE [i \in 1..Len(s) |-> scanExpense(s[i])]]
        /\ UNCHANGED <<config, defaults, expenses, recurring_expenses, now, tx, clients>>

(***************************************************************************)
(* Recurring expenses: each handler runs its statements in one sql.Tx.     *)
(* tx holds the handler's position and the tables as the transaction sees  *)
(* them; the variables expenses and recurring_expenses are the committed   *)
(* rows, which is what every other connection reads. An action is one      *)
(* statement of the handler (Begin together with the rule statement). The  *)
(* handlers are called one at a time: while a transaction is open no other *)
(* call starts, and what another connection would read is the committed    *)
(* rows.                                                                   *)
(***************************************************************************)
\* A return before Commit: the deferred tx.Rollback() discards the transaction.
Rollback(op, id, err) ==
    /\ tx' = TxIdle
    /\ result' = [op |-> op, err |-> err, id |-> id,
                  arg |-> [rule |-> tx.rule, all |-> tx.all, deletedAt |-> tx.deletedAt,
                           generatedAt |-> tx.generatedAt, removed |-> tx.removed,
                           before |-> tx.before],
                  val |-> <<>>]
    /\ UNCHANGED <<config, defaults, expenses, recurring_expenses, now, clients>>

\* A return from the handler's first statements: no transaction stays open.
Refuse(op, id, err, all) ==
    /\ result' = [op |-> op, err |-> err, id |-> id, arg |-> [NoCall EXCEPT !.all = all],
                  val |-> <<>>]
    /\ UNCHANGED <<config, defaults, expenses, recurring_expenses, now, tx, clients>>

ProceedAutocommit(op, rule, all, rules, pc) ==
    /\ tx' = [pc |-> pc, op |-> op, id |-> rule.ID, all |-> all, rule |-> rule,
              recurring_expenses |-> rules, expenses |-> expenses,
              deletedAt |-> ZeroTime, generatedAt |-> ZeroTime, removed |-> 0,
              before |-> Cardinality({e \in expenses : e.RecurringID = rule.ID})]
    /\ result' = [op |-> op, err |-> "running", id |-> rule.ID,
                  arg |-> [NoCall EXCEPT !.all = all], val |-> <<>>]
    /\ recurring_expenses' = rules
    /\ UNCHANGED <<config, defaults, expenses, now, clients>>

\* The rule statement went through: the transaction stays open.
Proceed(op, rule, all, rules, pc) ==
    /\ tx' = [pc |-> pc, op |-> op, id |-> rule.ID, all |-> all, rule |-> rule,
              recurring_expenses |-> rules, expenses |-> expenses,
              deletedAt |-> ZeroTime, generatedAt |-> ZeroTime, removed |-> 0,
              before |-> Cardinality({e \in expenses : e.RecurringID = rule.ID})]
    /\ result' = [op |-> op, err |-> "running", id |-> rule.ID,
                  arg |-> [NoCall EXCEPT !.all = all], val |-> <<>>]
    /\ UNCHANGED <<config, defaults, expenses, recurring_expenses, now, clients>>

\* f = 1: Begin, or the INSERT of the rule, fails.
AddRecurringExpense(recurringExpense, uuid, f) ==
    LET rule == [recurringExpense EXCEPT
                    !.ID = IF @ = "" THEN uuid ELSE @,
                    !.Currency = IF @ = "" THEN defaults.currency ELSE @]
        op   == "AddRecurringExpense"
    IN  /\ tx.pc = "idle"
        /\ uuid \notin IDsOf(recurring_expenses)
        /\ IF f = 1 THEN Refuse(op, rule.ID, "db_error", FALSE)
           ELSE IF rule.ID \in IDsOf(recurring_expenses)
           THEN Refuse(op, rule.ID, "duplicate_key", FALSE)
           ELSE /\ Cardinality(recurring_expenses) < MaxRecurring
                /\ Proceed(op, rule, FALSE, recurring_expenses \cup {rule}, "copyin")

\* f = 1: Begin, or the UPDATE of the rule, fails.
UpdateRecurringExpense(id, recurringExpense, updateAll, f) ==
    LET rule == [recurringExpense EXCEPT
                    !.ID = id,
                    !.Currency = IF @ = "" THEN defaults.currency ELSE @]
        op   == "UpdateRecurringExpense"
    IN  /\ tx.pc = "idle"
        /\ IF f = 1 THEN Refuse(op, id, "db_error", updateAll)
           ELSE IF id \notin IDsOf(recurring_expenses)
           THEN Refuse(op, id, "not_found", updateAll)
           ELSE Proceed(op, rule, updateAll,
                        {r \in recurring_expenses : r.ID # id} \cup {rule}, "delete")

\* f = 1: Begin, or the DELETE of the rule, fails.
RemoveRecurringExpense(id, removeAll, f) ==
    LET op   == "RemoveRecurringExpense"
        rule == [ID |-> id]
    IN  /\ tx.pc = "idle"
        /\ IF f = 1 THEN Refuse(op, id, "db_error", removeAll)
           ELSE IF id \notin IDsOf(recurring_expenses)
           THEN Refuse(op, id, "not_found", removeAll)
           ELSE Proceed(op, rule, removeAll,
                        {r \in recurring_expenses : r.ID # id}, "delete")

\* DELETE FROM expenses WHERE recurring_id = $1 [AND date > $2], $2 = time.Now().
DeleteInstancesKeepAll(rows, id, all, today) == rows

DeleteInstancesFromToday(rows, id, all, today) ==
    {e \in rows : ~(e.RecurringID = id /\ (all \/ e.Date >= today))}

DeleteInstances(rows, id, all, today) ==
    {e \in rows : ~(e.RecurringID = id /\ (all \/ e.Date > today))}

DeleteStatement(op, next, f) ==
    /\ tx.pc = "delete"
    /\ tx.op = op
    /\ IF f = 1 THEN Rollback(op, tx.id, "db_error")
       ELSE /\ tx' = [tx EXCEPT !.pc = next, !.deletedAt = now,
                                !.expenses = DeleteInstances(@, tx.id, tx.all, now),
                                !.removed = Cardinality(tx.expenses)
                                    - Cardinality(DeleteInstances(tx.expenses, tx.id, tx.all, now))]
            /\ UNCHANGED <<config, defaults, expenses, recurring_expenses, now, 
                           result, clients>>

UpdateRecurringDelete(f) == DeleteStatement("UpdateRecurringExpense", "copyin", f)

RemoveRecurringDelete(f) == DeleteStatement("RemoveRecurringExpense", "commit", f)

SeqToSet(s) == {s[i] : i \in 1..Len(s)}

\* COPY expenses FROM STDIN of the generated instances: the primary key expenses.id
\* refuses an id that is already in the table or twice in the batch.
\* A copy-in into a table without a key on id.
CopyInNeverFails(rows, batch) == FALSE

CopyInFails(rows, batch) ==
    \/ \E i, j \in 1..Len(batch) : i # j /\ batch[i].ID = batch[j].ID
    \/ \E i \in 1..Len(batch) : batch[i].ID \in IDsOf(rows)

\* f = 1: Prepare or an Exec of the statement fails.
CopyInStatement(op, fromToday, f) ==
    LET expensesToAdd == generateExpensesFromRecurring(tx.rule, fromToday, now)
    IN  /\ tx.pc = "copyin"
        /\ tx.op = op
        /\ IF Len(expensesToAdd) = 0
           THEN /\ tx' = [tx EXCEPT !.pc = "commit", !.generatedAt = now]
                /\ UNCHANGED <<config, defaults, expenses, recurring_expenses, now, 
                               result, clients>>
           ELSE IF f = 1 THEN Rollback(op, tx.id, "db_error")
           ELSE IF CopyInFails(tx.expenses, expensesToAdd)
           THEN Rollback(op, tx.id, "duplicate_key")
           ELSE /\ Cardinality(tx.expenses) + Len(expensesToAdd) <= MaxExpenses
                /\ tx' = [tx EXCEPT !.pc = "commit", !.generatedAt = now,
                                    !.expenses = @ \cup SeqToSet(expensesToAdd)]
                /\ UNCHANGED <<config, defaults, expenses, recurring_expenses, now, 
                               result, clients>>

AddRecurringCopyIn(f) == CopyInStatement("AddRecurringExpense", FALSE, f)

UpdateRecurringCopyInFromToday(f) == CopyInStatement("UpdateRecurringExpense", TRUE, f)

UpdateRecurringCopyIn(f) == CopyInStatement("UpdateRecurringExpense", ~tx.all, f)

\* tx.Commit(): the transaction's rows become the committed rows, all at once.
CommitStatement(op, f) ==
    /\ tx.pc = "commit"
    /\ tx.op = op
    /\ IF f = 1 THEN Rollback(op, tx.id, "db_error")
       ELSE /\ expenses' = tx.expenses
            /\ recurring_expenses' = tx.recurring_expenses
            /\ tx' = TxIdle
            /\ result' = [op |-> op, err |-> "ok", id |-> tx.id,
                          arg |-> [rule |-> tx.rule, all |-> tx.all,
                                   deletedAt |-> tx.deletedAt,
                                   generatedAt |-> tx.generatedAt,
                                   removed |-> tx.removed, before |-> tx.before],
                          val |-> <<>>]
            /\ UNCHANGED <<config, defaults, now, clients>>

AddRecurringCommit(f) == CommitStatement("AddRecurringExpense", f)

UpdateRecurringCommit(f) == CommitStatement("UpdateRecurringExpense", f)

RemoveRecurringCommit(f) == CommitStatement("RemoveRecurringExpense", f)

(***************************************************************************)
(* The store: every handler, one call at a time, the clock, and readers.   *)
(***************************************************************************)
\* The statement of a call that fails: none or the first; for AddExpense with a
\* caller-chosen ID, none or the INSERT.
OneFault == 0..1
InsertFaults == {0, 2}

Next ==
    \/ Tick
    \/ GetConfig
    \/ \E e \in ExpenseInputs, f \in InsertFaults : AddExpense(e, f)
    \/ \E id \in UpdateIDs, e \in UpdateInputs, f \in OneFault : UpdateExpense(id, e, f)
    \/ \E id \in IDsOf(expenses) \cup {UnknownExpenseID}, f \in OneFault : RemoveExpense(id, f)
    \/ \E id \in IDsOf(expenses) \cup {UnknownExpenseID}, f \in OneFault : GetExpense(id, f)
    \/ \E f \in OneFault : GetAllExpenses(f)
    \/ \E r \in RecurringInputs, u \in UUIDs, f \in OneFault : AddRecurringExpense(r, u, f)
    \/ \E id \in UpdateRecurringIDs, r \in RecurringInputs, all \in BOOLEAN, f \in OneFault :
            UpdateRecurringExpense(id, r, all, f)
    \/ \E id \in RecurringIDs, all \in BOOLEAN, f \in OneFault :
            RemoveRecurringExpense(id, all, f)
    \/ \E f \in OneFault : AddRecurringCopyIn(f)
    \/ \E f \in OneFault : AddRecurringCommit(f)
    \/ \E f \in OneFault : UpdateRecurringDelete(f)
    \/ \E f \in OneFault : UpdateRecurringCopyIn(f)
    \/ \E f \in OneFault : UpdateRecurringCommit(f)
    \/ \E f \in OneFault : RemoveRecurringDelete(f)
    \/ \E f \in OneFault : RemoveRecurringCommit(f)

Spec == Init /\ [][Next]_vars

(***************************************************************************)
(* Properties of the recurring-expense handlers.                           *)
(***************************************************************************)
Finished(op) == result.op = op /\ result.err # "running"

InstancesOf(rows, id) == {e \in rows : e.RecurringID = id}

\* C2: AddRecurringExpense of a template with a recognised interval and N >= 1
\* occurrences (its ID not stored before, no transaction referencing it, no
\* database failure) succeeds, the rule is stored, and exactly N transactions
\* reference the template, each under its own non-empty ID.
C2_AddRecurringStoresInstances ==
    (/\ Finished("AddRecurringExpense")
     /\ result.arg.rule # NoRule
     /\ result.err # "db_error"
     /\ result.arg.before = 0
     /\ Recognised(result.arg.rule.Interval)
     /\ result.arg.rule.Occurrences >= 1)
    => /\ result.err = "ok"
       /\ result.arg.rule \in recurring_expenses
       /\ Cardinality(InstancesOf(expenses, result.id)) = result.arg.rule.Occurrences
       /\ \A e \in InstancesOf(expenses, result.id) : e.ID # ""

RecurringOps == {"AddRecurringExpense", "UpdateRecurringExpense", "RemoveRecurringExpense"}

CommittedUnchanged ==
    /\ expenses' = expenses
    /\ recurring_expenses' = recurring_expenses

\* C3: each recurring-expense handler is all-or-nothing. No statement of an open
\* transaction changes the committed rows (what another connection reads); a
\* handler that returns an error leaves both tables as they were; and a commit
\* makes the rule change and the instance change visible in one step.
C3_RecurringAtomic ==
    [][/\ tx'.pc # "idle" => CommittedUnchanged
       /\ (result'.op \in RecurringOps /\ result'.err \notin {"ok", "running"})
            => CommittedUnchanged
       /\ (tx.pc # "idle" /\ tx'.pc = "idle" /\ result'.err = "ok")
            => /\ recurring_expenses' = tx.recurring_expenses
               /\ expenses' = tx.expenses]_vars

\* The bulk insert failed after the rule was written, and the rule is not stored.
C3_Witness ==
    /\ Finished("AddRecurringExpense")
    /\ result.err = "duplicate_key"
    /\ result.arg.rule # NoRule
    /\ result.id \notin IDsOf(recurring_expenses)
    /\ expenses # {}

\* The step on which a handler's transaction commits.
Commits(op) ==
    /\ tx.op = op
    /\ tx.pc = "commit"
    /\ tx'.pc = "idle"
    /\ result'.err = "ok"

\* C4: a successful RemoveRecurringExpense(id, removeAll = true) leaves no
\* transaction referencing id; with removeAll = false, run at time T, it leaves of
\* those referencing id exactly the ones dated on or before T. Transactions not
\* referencing id are unchanged.
C4_RemoveRecurring ==
    [][Commits("RemoveRecurringExpense")
        => expenses' = {e \in expenses :
                            \/ e.RecurringID # result'.id
                            \/ ~result'.arg.all /\ e.Date <= result'.arg.deletedAt}]_vars

C4_Witness ==
    /\ Finished("RemoveRecurringExpense")
    /\ result.err = "ok"
    /\ ~result.arg.all
    /\ result.arg.removed >= 1
    /\ InstancesOf(expenses, result.id) # {}
    /\ \E e \in expenses : e.RecurringID # result.id

\* C5: after a successful UpdateRecurringExpense(id, newRule, updateAll = true) the
\* transactions referencing id are exactly the expansion of the rule as written
\* with fromToday = false: every one carries the new rule's fields, and the other
\* transactions are unchanged.
C5_UpdateAll ==
    [][(Commits("UpdateRecurringExpense") /\ result'.arg.all)
        => LET rule == result'.arg.rule
               gen  == generateExpensesFromRecurring(rule, FALSE, result'.arg.generatedAt)
           IN  /\ rule.ID = result'.id
               /\ rule \in recurring_expenses'
               /\ InstancesOf(expenses', rule.ID) = SeqToSet(gen)
               /\ \A e \in InstancesOf(expenses', rule.ID) :
                        /\ e.Description = rule.Description
                        /\ e.Amount = rule.Amount
                        /\ e.Currency = rule.Currency
               /\ expenses' \ InstancesOf(expenses', rule.ID)
                    = expenses \ InstancesOf(expenses, rule.ID)]_vars

C5_Witness ==
    /\ Finished("UpdateRecurringExpense")
    /\ result.err = "ok"
    /\ result.arg.all
    /\ result.arg.removed >= 1
    /\ \E e \in InstancesOf(expenses, result.id) :
            e.Description = result.arg.rule.Description
    /\ \A e \in InstancesOf(expenses, result.id) :
            e.Description = result.arg.rule.Description

\* C6: a successful UpdateRecurringExpense(id, newRule, updateAll = false) whose
\* DELETE ran at time T keeps every instance of id dated on or before T as it was,
\* deletes every instance of id dated after T, and adds exactly the expansion of
\* the rule with fromToday = true (taken at the clock reading of the expansion).
C6_UpdateFutureOnly ==
    [][(Commits("UpdateRecurringExpense") /\ ~result'.arg.all)
        => LET rule == result'.arg.rule
               gen  == generateExpensesFromRecurring(rule, TRUE, result'.arg.generatedAt)
               kept == {e \in expenses :
                            ~(e.RecurringID = rule.ID /\ e.Date > result'.arg.deletedAt)}
           IN  /\ expenses' = kept \cup SeqToSet(gen)
               /\ kept \cap SeqToSet(gen) = {}]_vars

C6_Witness ==
    /\ Finished("UpdateRecurringExpense")
    /\ result.err = "ok"
    /\ ~result.arg.all
    /\ result.arg.removed >= 1
    /\ \E e \in InstancesOf(expenses, result.id) :
            e.Date <= result.arg.deletedAt /\ e.Description # result.arg.rule.Description
    /\ \E e \in InstancesOf(expenses, result.id) :
            e.Date > result.arg.generatedAt /\ e.Description = result.arg.rule.Description

TablesUnchanged ==
    /\ expenses' = expenses
    /\ recurring_expenses' = recurring_expenses
    /\ config' = config

\* C7: UpdateExpense, RemoveExpense, UpdateRecurringExpense and
\* RemoveRecurringExpense called with an ID that is not stored return a not-found
\* error (the database answering) and leave the transactions, the templates and
\* the configuration unchanged.
C7_UnknownIDNotFound ==
    [][(/\ tx.pc = "idle"
        /\ now' = now
        /\ result'.err # "db_error"
        /\ \/ /\ result'.op \in {"UpdateExpense", "RemoveExpense"}
              /\ result'.id \notin IDsOf(expenses)
           \/ /\ result'.op \in {"UpdateRecurringExpense", "RemoveRecurringExpense"}
              /\ result'.id \notin IDsOf(recurring_expenses))
       => (result'.err = "not_found" /\ TablesUnchanged /\ tx'.pc = "idle")]_vars

C7_Witness ==
    /\ Finished("UpdateRecurringExpense")
    /\ result.err = "not_found"
    /\ result.id \notin IDsOf(recurring_expenses)
    /\ expenses # {}
    /\ recurring_expenses # {}
    /\ config # {}

\* Equal on every field, the currency and date only where the input set them.
RoundTrip(e, got) ==
    /\ got.ID = e.ID
    /\ got.Description = e.Description
    /\ got.From = e.From
    /\ got.To = e.To
    /\ got.Method = e.Method
    /\ got.Note = e.Note
    /\ got.Category = e.Category
    /\ got.Amount = e.Amount
    /\ got.RecurringID = e.RecurringID
    /\ (e.Currency # "" => got.Currency = e.Currency)
    /\ (~IsZero(e.Date) => got.Date = e.Date)

\* C9: for an expense e with a non-empty ID, AddExpense(e) followed by
\* GetExpense(e.ID) returns a value equal to e on every field, the currency and
\* the date excepted only where e left them empty.
C9_RoundTrip ==
    [][(/\ result.op = "AddExpense"
        /\ result.err = "ok"
        /\ result.arg[1].ID # ""
        /\ result'.op = "GetExpense"
        /\ result'.err = "ok"
        /\ result'.id = result.arg[1].ID)
        => RoundTrip(result.arg[1], result'.val[1])]_vars

(***************************************************************************)
(* The expander on its own: templates of every interval, count and start.  *)
(***************************************************************************)
ExpandStarts ==
    {Date(2024, 1, 31), Date(2024, 2, 29), Today0 - 8, Today0, Today0 + 1}

ExpandTemplates ==
    { RecurringExpense("r1", "rent", 0 - 200, "eur", s, i, n) :
        s \in ExpandStarts, i \in Intervals \cup {"hourly", ""}, n \in (0 - 1)..MaxOccurrences }

Expand ==
    \E recExp \in ExpandTemplates, fromToday \in BOOLEAN :
        /\ result' = [op |-> "generateExpensesFromRecurring", err |-> "ok", id |-> recExp.ID,
                      arg |-> [rule |-> recExp, fromToday |-> fromToday, today |-> now],
                      val |-> generateExpensesFromRecurring(recExp, fromToday, now)]
        /\ UNCHANGED <<config, defaults, expenses, recurring_expenses, now, tx, clients>>

NextExpand == Expand \/ Tick

SpecExpand == Init /\ [][NextExpand]_vars

\* b is exactly one interval step after a, on the calendar.
OneStepApart(interval, a, b) ==
    LET c == CivilFromDays(a)
    IN  CASE interval = "daily"   -> b = a + 1
          [] interval = "weekly"  -> b = a + 7
          [] interval = "monthly" -> b = Date(c.year, c.month + 1, c.day)
          [] interval = "yearly"  -> b = Date(c.year + 1, c.month, c.day)
          [] OTHER                -> FALSE

\* C1: with a recognised interval, N > 0 occurrences and fromToday = false the
\* expansion has exactly N instances, the first dated at the template's start
\* date and every later one exactly one interval step after its predecessor.
C1_ExpansionExact ==
    (/\ result.op = "generateExpensesFromRecurring"
     /\ ~result.arg.fromToday
     /\ Recognised(result.arg.rule.Interval)
     /\ result.arg.rule.Occurrences > 0)
    => LET v == result.val
           r == result.arg.rule
       IN  /\ Len(v) = r.Occurrences
           /\ v[1].Date = r.StartDate
           /\ \A i \in 1..(Len(v) - 1) : OneStepApart(r.Interval, v[i].Date, v[i + 1].Date)
           /\ \A i \in 1..Len(v) : v[i].RecurringID = r.ID

C1_Witness ==
    /\ result.op = "generateExpensesFromRecurring"
    /\ ~result.arg.fromToday
    /\ result.arg.rule.Interval = "monthly"
    /\ result.arg.rule.Occurrences = 3
    /\ result.arg.rule.StartDate = Date(2024, 1, 31)
    /\ Len(result.val) = 3
    /\ result.val[3].Date > result.val[2].Date

(***************************************************************************)
(* The configuration handlers on their own.                                *)
(***************************************************************************)
NextConfig ==
    \/ GetConfig
    \/ \E c \in CurrencyInputs, f \in Faults : UpdateCurrency(c, f)
    \/ \E d \in StartDateInputs, f \in Faults : UpdateStartDate(d, f)
    \/ \E l \in LanguageInputs, f \in Faults : UpdateLanguage(l, f)
    \/ \E f \in GetFaults : GetLanguage(f)
    \/ \E f \in GetFaults : GetOpeningBalance(f)
    \/ \E f \in GetFaults : GetUseManualBalances(f)
    \/ \E f \in GetFaults : GetManualBalances(f)
    \/ \E b \in OpeningBalanceInputs, f \in OneFault : UpdateOpeningBalance(b, f)
    \/ \E u \in BOOLEAN, f \in OneFault : UpdateUseManualBalances(u, f)
    \/ \E m \in ManualBalancesInputs, f \in OneFault : UpdateManualBalances(m, f)

SpecConfig == Init /\ [][NextConfig]_vars

InvalidConfigCall ==
    \/ result.op = "UpdateCurrency" /\ result.arg[1] \notin SupportedCurrencies
    \/ result.op = "UpdateLanguage" /\ result.arg[1] \notin SupportedLanguages
    \/ result.op = "UpdateStartDate" /\ result.arg[1] \notin 1..31

\* C8: a configuration update with an invalid value (a currency or language code
\* outside the supported set, a start date outside 1..31) returns an error and
\* leaves the stored configuration, the stored currency included, unchanged.
C8_InvalidConfigRejected ==
    [][InvalidConfigCall' => (result'.err # "ok" /\ config' = config)]_vars

C8_Witness ==
    /\ result.op = "UpdateCurrency"
    /\ result.arg[1] = "xyz"
    /\ result.err = "invalid"
    /\ \E r \in config : r.currency = "eur"

\* C12: after every configuration mutation, failed or not, the cached defaults
\* (currency, start date) equal the persisted configuration: an empty cache while
\* no row is stored, the row's values otherwise.
C12_CacheMatchesConfig ==
    IF config = {}
    THEN defaults = [currency |-> "", start_date |-> ""]
    ELSE \A r \in config :
            /\ defaults.currency = r.currency
            /\ defaults.start_date = Itoa(r.start_date)

\* C13: GetConfig on a store without a configuration row inserts the hard-coded
\* defaults and returns them, and a GetConfig that directly follows a GetConfig
\* returns a configuration equal to the first on every field.
C13_GetConfigIdempotent ==
    [][/\ (config = {} /\ result'.op = "GetConfig" /\ result'.err = "ok")
            => /\ result'.val[1] = BaseConfig
               /\ config' = UpsertRow({}, BaseConfig)
       /\ (/\ result.op = "GetConfig"
           /\ result.err = "ok"
           /\ result'.op = "GetConfig"
           /\ result'.err = "ok")
            => result'.val[1] = result.val[1]]_vars

\* C14: after a successful UpdateLanguage(l) with l a supported language, the
\* GetLanguage that follows returns l.
C14_LanguageReadBack ==
    [][(/\ result.op = "UpdateLanguage"
        /\ result.err = "ok"
        /\ result'.op = "GetLanguage"
        /\ result'.err = "ok")
        => result'.val[1] = result.arg[1]]_vars

\* The getter that reads what an update handler wrote.
GetterOf(op) ==
    CASE op = "UpdateOpeningBalance"    -> "GetOpeningBalance"
      [] op = "UpdateUseManualBalances" -> "GetUseManualBalances"
      [] op = "UpdateManualBalances"    -> "GetManualBalances"
      [] OTHER                          -> "none"

\* C15: in every reachable state, one without a configuration row included, an
\* UpdateOpeningBalance, UpdateUseManualBalances or UpdateManualBalances that
\* returns success is observed by the matching getter called next.
C15_BalanceReadBack ==
    [][(/\ GetterOf(result.op) # "none"
        /\ result.err = "ok"
        /\ result'.op = GetterOf(result.op)
        /\ result'.err = "ok")
        => result'.val[1] = result.arg[1]]_vars

(***************************************************************************)
(* Concurrent AddExpense: each goroutine runs the handler's two statements *)
(* (the counter UPDATE ... RETURNING, then the INSERT) on the shared        *)
(* database; a statement is atomic, the handler is not.                    *)
(***************************************************************************)
Clients == 1..NumClients

ClientIdle == [pc |-> "idle", expense |-> Expense("", "", "", 0, "", ZeroTime), id |-> "",
               err |-> "ok"]

\* Expenses the concurrent callers add: the ID is left to the store.
ConcurrentInputs ==
    { Expense("", "", "fee", 0 - 30, "eur", Today0),
      Expense("", "", "salary", 500, "gbp", Today0) }

InitConcurrent ==
    /\ config = {}
    /\ defaults = [currency |-> "", start_date |-> ""]
    /\ expenses = {}
    /\ recurring_expenses = {}
    /\ now = Today0
    /\ tx = TxIdle
    /\ result = NoResult
    /\ clients = [c \in Clients |-> ClientIdle]

\* A goroutine enters AddExpense with an empty ID.
ClientCall(c, expense) ==
    /\ clients[c].pc = "idle"
    /\ clients' = [clients EXCEPT ![c] = [pc |-> "counter", expense |-> expense, id |-> "",
                                          err |-> "ok"]]
    /\ UNCHANGED <<config, defaults, expenses, recurring_expenses, now, tx, result>>

\* The counter statement and GenerateTransactionID.
ClientCounter(c) ==
    LET isGain == clients[c].expense.Amount > 0
        bump   == BumpCounter(config, isGain, FALSE)
    IN  /\ clients[c].pc = "counter"
        /\ CounterRoom(config, isGain)
        /\ config' = bump.config
        /\ clients' = [clients EXCEPT ![c].pc = "insert",
                                      ![c].id = GenerateTransactionID(isGain, bump.counter)]
        /\ UNCHANGED <<defaults, expenses, recurring_expenses, now, tx, result>>

\* The INSERT, and the return.
ClientInsert(c) ==
    LET row == ExpenseToInsert([clients[c].expense EXCEPT !.ID = clients[c].id], 0,
                               defaults, now)
        err == IF row.ID \in IDsOf(expenses) THEN "duplicate_key" ELSE "ok"
    IN  /\ clients[c].pc = "insert"
        /\ err = "ok" => Cardinality(expenses) < MaxExpenses
        /\ expenses' = IF err = "ok" THEN expenses \cup {row} ELSE expenses
        /\ clients' = [clients EXCEPT ![c].pc = "idle", ![c].err = err]
        /\ UNCHANGED <<config, defaults, recurring_expenses, now, tx, result>>

NextConcurrent ==
    \/ GetConfig
    \/ \E c \in Clients, e \in ConcurrentInputs : ClientCall(c, e)
    \/ \E c \in Clients : ClientCounter(c)
    \/ \E c \in Clients : ClientInsert(c)

SpecConcurrent == InitConcurrent /\ [][NextConcurrent]_vars

\* C10: two AddExpense calls with an empty ID and the same amount sign that run
\* at the same time hold different generated IDs, whatever the interleaving and
\* whether or not the configuration row exists, and no INSERT fails on a
\* duplicate key.
C10_ConcurrentIDsDistinct ==
    /\ \A a, b \in Clients :
            (/\ a # b
             /\ clients[a].pc = "insert"
             /\ clients[b].pc = "insert"
             /\ (clients[a].expense.Amount > 0) = (clients[b].expense.Amount > 0))
            => clients[a].id # clients[b].id
    /\ \A c \in Clients : clients[c].err # "duplicate_key"

(***************************************************************************)
(* The cached defaults: a store constructed over the database as it is,    *)
(* and additions that leave the currency to the store.                     *)
(***************************************************************************)
\* InitializePostgresStore on a database that keeps its rows: the new store's
\* defaults map is empty.
Restart ==
    /\ tx.pc = "idle"
    /\ defaults' = [currency |-> "", start_date |-> ""]
    /\ result' = [NoResult EXCEPT !.op = "InitializePostgresStore"]
    /\ UNCHANGED <<config, expenses, recurring_expenses, now, tx, clients>>

\* Additions with an empty currency.
DefaultedExpenses ==
    { Expense("d1", "", "coffee", 0 - 3, "", Today0),
      Expense("d2", "", "tip", 2, "", Today0 + 1) }

DefaultedTemplates ==
    { RecurringExpense("r9", "cloud", 0 - 9, "", Today0, "monthly", 1) }

DefaultCurrencyInputs == {"eur", "myr"}

NextDefaults ==
    \/ Restart
    \/ GetConfig
    \/ \E c \in DefaultCurrencyInputs : UpdateCurrency(c, 0)
    \/ \E e \in DefaultedExpenses : AddExpense(e, 0)
    \/ \E r \in DefaultedTemplates, u \in UUIDs : AddRecurringExpense(r, u, 0)
    \/ AddRecurringCopyIn(0)
    \/ AddRecurringCommit(0)
    \/ \E id \in IDsOf(expenses) : RemoveExpense(id, 0)
    \/ \E id \in IDsOf(recurring_expenses) : RemoveRecurringExpense(id, TRUE, 0)
    \/ RemoveRecurringDelete(0)
    \/ RemoveRecurringCommit(0)

SpecDefaults == Init /\ [][NextDefaults]_vars

\* The configured default currency: the stored row's, or the hard-coded default
\* while no row is stored.
ConfiguredCurrency(rows) ==
    IF rows = {} THEN BaseConfig.Currency ELSE (CHOOSE r \in rows : TRUE).currency

\* C11: in every reachable state (a store just constructed, over an empty or a
\* populated database, included) a transaction or a recurring template added with
\* an empty currency is stored with the configured default currency, never with an
\* empty one.
C11_EmptyCurrencyDefaulted ==
    [][/\ (/\ tx.pc = "idle"
           /\ result'.op = "AddExpense"
           /\ result'.err = "ok"
           /\ result'.arg[1].Currency = "")
          => \E row \in expenses' \ expenses :
                /\ row.Currency # ""
                /\ row.Currency = ConfiguredCurrency(config)
       /\ (/\ tx.pc = "idle"
           /\ result'.op = "AddRecurringExpense"
           /\ result'.err = "running")
          => /\ tx'.rule.Currency # ""
             /\ tx'.rule.Currency = ConfiguredCurrency(config)]_vars

(***************************************************************************)
(* SanitizeString and Expense.Validate. A string is a sequence of          *)
(* characters; the alphabet has one character or more of every class the   *)
(* two regular expressions and strings.TrimSpace tell apart.               *)
(***************************************************************************)
Letters == {"a"}                  \* \p{L}
Numbers == {"1"}                  \* \p{N}
RegexSpace == {" ", "tab"}        \* \s of package regexp: [\t\n\f\r ]
Punctuation == {"."}              \* . , - ' _ ! " &
\* unicode.IsSpace, which strings.TrimSpace uses: \s, and also \v, U+0085, U+00A0, ...
UnicodeSpace == RegexSpace \cup {"vt", "nbsp"}
Chars == Letters \cup Numbers \cup Punctuation \cup UnicodeSpace \cup {"#"}

Strings == UNION {[1..k -> Chars] : k \in 0..MaxStringLen}

\* REInvalidChars.ReplaceAllString(s, " ")
ReplaceInvalidChars(s) ==
    [i \in 1..Len(s) |->
        IF s[i] \in Letters \cup Numbers \cup RegexSpace \cup Punctuation THEN s[i] ELSE " "]

RECURSIVE SkipSpaces(_)
SkipSpaces(s) ==
    IF s # <<>> /\ Head(s) \in RegexSpace THEN SkipSpaces(Tail(s)) ELSE s

\* RERepeatingSpaces.ReplaceAllString(s, " "): every maximal run of \s becomes " ".
RECURSIVE ReplaceRepeatingSpaces(_)
ReplaceRepeatingSpaces(s) ==
    IF s = <<>> THEN <<>>
    ELSE IF Head(s) \in RegexSpace
    THEN <<" ">> \o ReplaceRepeatingSpaces(SkipSpaces(s))
    ELSE <<Head(s)>> \o ReplaceRepeatingSpaces(Tail(s))

RECURSIVE TrimLeft(_)
TrimLeft(s) ==
    IF s # <<>> /\ Head(s) \in UnicodeSpace THEN TrimLeft(Tail(s)) ELSE s

RECURSIVE TrimRight(_)
TrimRight(s) ==
    IF s # <<>> /\ s[Len(s)] \in UnicodeSpace THEN TrimRight(SubSeq(s, 1, Len(s) - 1)) ELSE s

\* strings.TrimSpace
TrimSpace(s) == TrimRight(TrimLeft(s))

SanitizeStringCollapseFirst(s) ==
    TrimSpace(ReplaceInvalidChars(ReplaceRepeatingSpaces(s)))

SanitizeString(s) ==
    TrimSpace(ReplaceRepeatingSpaces(ReplaceInvalidChars(s)))

\* Expense.Validate: the error it returns and the receiver as it leaves it.
Validate(e) ==
    LET e1 == [e EXCEPT !.Description = SanitizeString(@)]
        e2 == [e1 EXCEPT !.From = SanitizeString(@), !.To = SanitizeString(@),
                         !.Method = SanitizeString(@)]
    IN  IF e1.Description = <<>> THEN [err |-> "description", e |-> e1]
        ELSE IF e2.Category = <<>> THEN [err |-> "category", e |-> e2]
        ELSE IF e2.Amount = 0 THEN [err |-> "amount", e |-> e2]
        ELSE IF IsZero(e2.Date) THEN [err |-> "date", e |-> e2]
        ELSE [err |-> "ok", e |-> e2]

\* Expenses handed to Validate.
ValidateInputs ==
    [Description : {<<>>, <<" ">>, <<"a">>, <<"#", "a", " ">>},
     From        : {<<>>, <<"nbsp", "a">>},
     To          : {<<"a", " ", " ", "1">>},
     Method      : {<<"a", "#">>},
     Category    : {<<>>, <<" ">>, <<"a">>, <<"#">>},
     Amount      : {0, 0 - 5, 7},
     Date        : {ZeroTime, Today0}]

\* The call about to be made: SanitizeString of a string, or Validate of an expense.
InitValidation ==
    /\ config = {}
    /\ defaults = [currency |-> "", start_date |-> ""]
    /\ expenses = {}
    /\ recurring_expenses = {}
    /\ now = Today0
    /\ tx = TxIdle
    /\ clients = <<>>
    /\ \/ \E s \in Strings : result = [NoResult EXCEPT !.op = "string", !.arg = <<s>>]
       \/ \E e \in ValidateInputs : result = [NoResult EXCEPT !.op = "expense", !.arg = <<e>>]

Sanitize ==
    /\ result.op = "string"
    /\ result' = [op |-> "SanitizeString", err |-> "ok", id |-> "", arg |-> result.arg,
                  val |-> <<SanitizeString(result.arg[1])>>]
    /\ UNCHANGED <<config, defaults, expenses, recurring_expenses, now, tx, clients>>

ValidateExpense ==
    LET v == Validate(result.arg[1])
    IN  /\ result.op = "expense"
        /\ result' = [op |-> "Validate", err |-> v.err, id |-> "", arg |-> result.arg,
                      val |-> <<v.e>>]
        /\ UNCHANGED <<config, defaults, expenses, recurring_expenses, now, tx, clients>>

NextValidation == Sanitize \/ ValidateExpense

SpecValidation == InitValidation /\ [][NextValidation]_vars

\* C16: Validate succeeds exactly when the description and the category are
\* non-empty after sanitization, the amount is not zero and the date is not the
\* zero time; on success description, from, to and method hold their sanitized
\* values.
C16_ValidateIff ==
    result.op = "Validate" =>
        LET e   == result.arg[1]
            out == result.val[1]
        IN  /\ (result.err = "ok") <=> (/\ SanitizeString(e.Description) # <<>>
                                        /\ SanitizeString(e.Category) # <<>>
                                        /\ e.Amount # 0
                                        /\ ~IsZero(e.Date))
            /\ result.err = "ok" => /\ out.Description = SanitizeString(e.Description)
                                    /\ out.From = SanitizeString(e.From)
                                    /\ out.To = SanitizeString(e.To)
                                    /\ out.Method = SanitizeString(e.Method)

\* C17: SanitizeString is idempotent, and its result holds no disallowed
\* character, no two whitespace characters in a row and no whitespace at either
\* end.
C17_SanitizeIdempotent ==
    result.op = "SanitizeString" =>
        LET r == result.val[1]
        IN  /\ SanitizeString(r) = r
            /\ \A i \in 1..Len(r) : r[i] \in Letters \cup Numbers \cup Punctuation \cup {" "}
            /\ \A i \in 1..(Len(r) - 1) : ~(r[i] \in UnicodeSpace /\ r[i + 1] \in UnicodeSpace)
            /\ r # <<>> => (r[1] \notin UnicodeSpace /\ r[Len(r)] \notin UnicodeSpace)

C17_Witness ==
    /\ result.op = "SanitizeString"
    /\ result.arg[1] = <<"nbsp", "a", "#", "tab">>
    /\ result.val[1] = <<"a">>

(***************************************************************************)
(* buildStatementPDF: the totals of the statement. Amounts are float64:    *)
(* every addition and subtraction rounds its exact result to the nearest   *)
(* representable value, ties to the even significand. The model's format   *)
(* has MantissaBits bits of significand where float64 has 53.              *)
(***************************************************************************)
Abs(x) == IF x < 0 THEN 0 - x ELSE x

\* The spacing of the representable values around magnitude a.
RECURSIVE Ulp(_)
Ulp(a) == IF a < 2 ^ MantissaBits THEN 1 ELSE 2 * Ulp(a \div 2)

RoundFloat(x) ==
    LET a  == Abs(x)
        u  == Ulp(a)
        q  == a \div u
        r  == a % u
        up == (2 * r > u) \/ (2 * r = u /\ q % 2 = 1)
        m  == (IF up THEN q + 1 ELSE q) * u
    IN  IF x < 0 THEN 0 - m ELSE m

FloatAdd(x, y) == RoundFloat(x + y)

FloatSub(x, y) == RoundFloat(x - y)

StatementCategories == {"Rent", "Income", "Uncategorized"}

\* debitMap / creditMap after the loop over the expenses, for one category.
RECURSIVE CategoryTotal(_, _, _)
CategoryTotal(exps, category, debit) ==
    IF exps = <<>> THEN 0
    ELSE LET exp  == exps[Len(exps)]
             cat  == IF exp.Category = "" THEN "Uncategorized" ELSE exp.Category
             rest == CategoryTotal(SubSeq(exps, 1, Len(exps) - 1), category, debit)
         IN  IF cat = category /\ debit /\ exp.Amount < 0
             THEN FloatAdd(rest, Abs(exp.Amount))
             ELSE IF cat = category /\ ~debit /\ exp.Amount > 0
             THEN FloatAdd(rest, exp.Amount)
             ELSE rest

\* The orders in which "for cat, amt := range map" can visit the categories.
RangeOrders ==
    {o \in [1..Cardinality(StatementCategories) -> StatementCategories] :
        \A i, j \in DOMAIN o : i # j => o[i] # o[j]}

\* totalExpenses / totalGains: the category totals summed in the order visited.
RECURSIVE SumTotals(_, _, _, _)
SumTotals(exps, order, n, debit) ==
    IF n = 0 THEN 0
    ELSE FloatAdd(SumTotals(exps, order, n - 1, debit), CategoryTotal(exps, order[n], debit))

StatementTotalsNoOpening(exps, openingBalance, debitOrder, creditOrder) ==
    LET totalExpenses  == SumTotals(exps, debitOrder, Len(debitOrder), TRUE)
        totalGains     == SumTotals(exps, creditOrder, Len(creditOrder), FALSE)
        closingBalance == FloatSub(FloatAdd(openingBalance, totalGains), totalExpenses)
    IN  [totalExpenses |-> totalExpenses, totalGains |-> totalGains,
         closingBalance |-> closingBalance,
         totalDebits |-> FloatAdd(totalExpenses, closingBalance),
         totalCredits |-> totalGains]

StatementTotals(exps, openingBalance, debitOrder, creditOrder) ==
    LET totalExpenses  == SumTotals(exps, debitOrder, Len(debitOrder), TRUE)
        totalGains     == SumTotals(exps, creditOrder, Len(creditOrder), FALSE)
        closingBalance == FloatSub(FloatAdd(openingBalance, totalGains), totalExpenses)
    IN  [totalExpenses |-> totalExpenses, totalGains |-> totalGains,
         closingBalance |-> closingBalance,
         totalDebits |-> FloatAdd(totalExpenses, closingBalance),
         totalCredits |-> FloatAdd(openingBalance, totalGains)]

\* Statement lines: a category and an amount, every amount a representable value.
StatementAmounts == {0 - 40, 0 - 2, 0, 1, 5}
StatementItems == [Category : {"Rent", "Income", ""}, Amount : StatementAmounts]
StatementLists == UNION {[1..k -> StatementItems] : k \in 0..MaxStatementItems}
OpeningBalances == {0, 10}

InitStatement ==
    /\ config = {}
    /\ defaults = [currency |-> "", start_date |-> ""]
    /\ expenses = {}
    /\ recurring_expenses = {}
    /\ now = Today0
    /\ tx = TxIdle
    /\ clients = <<>>
    /\ \E exps \in StatementLists, b \in OpeningBalances :
            result = [NoResult EXCEPT !.op = "statement",
                                      !.arg = [expenses |-> exps, openingBalance |-> b]]

buildStatementPDF ==
    \E debitOrder \in RangeOrders, creditOrder \in RangeOrders :
        /\ result.op = "statement"
        /\ result' = [op |-> "buildStatementPDF", err |-> "ok", id |-> "",
                      arg |-> result.arg,
                      val |-> StatementTotals(result.arg.expenses, result.arg.openingBalance,
                                              debitOrder, creditOrder)]
        /\ UNCHANGED <<config, defaults, expenses, recurring_expenses, now, tx, clients>>

SpecStatement == InitStatement /\ [][buildStatementPDF]_vars

\* The exact sums of the outflows' magnitudes and of the inflows.
RECURSIVE SumOutflows(_)
SumOutflows(exps) ==
    IF exps = <<>> THEN 0
    ELSE (IF Head(exps).Amount < 0 THEN Abs(Head(exps).Amount) ELSE 0) + SumOutflows(Tail(exps))

RECURSIVE SumInflows(_)
SumInflows(exps) ==
    IF exps = <<>> THEN 0
    ELSE (IF Head(exps).Amount > 0 THEN Head(exps).Amount ELSE 0) + SumInflows(Tail(exps))

\* No operation of the computation rounds: every sum it forms is representable.
NothingRounds(exps, openingBalance) ==
    /\ SumOutflows(exps) < 2 ^ MantissaBits
    /\ Abs(openingBalance) + SumInflows(exps) < 2 ^ MantissaBits
    /\ Abs(openingBalance + SumInflows(exps) - SumOutflows(exps)) < 2 ^ MantissaBits

\* C18 as stated: for every transaction list and opening balance the statement's
\* total debits (outflows plus closing balance) equal its total credits (opening
\* balance plus inflows).
C18_TrialBalance ==
    result.op = "buildStatementPDF" => result.val.totalDebits = result.val.totalCredits

\* C18, amended: total debits and total credits are equal up to floating-point
\* rounding (they differ by no more than the spacing of the representable values
\* at the magnitude of the sums), and whenever no operation rounds they are equal,
\* with closing balance = opening balance + inflows - outflows, total debits =
\* outflows + closing balance and total credits = opening balance + inflows.
C18_TrialBalanceUpToRounding ==
    result.op = "buildStatementPDF" =>
        LET exps == result.arg.expenses
            o    == result.arg.openingBalance
            v    == result.val
        IN  /\ Abs(v.totalDebits - v.totalCredits)
                    <= Ulp(v.totalExpenses + Abs(v.totalCredits))
            /\ NothingRounds(exps, o) =>
                    /\ v.closingBalance = o + SumInflows(exps) - SumOutflows(exps)
                    /\ v.totalDebits = SumOutflows(exps) + v.closingBalance
                    /\ v.totalCredits = o + SumInflows(exps)
                    /\ v.totalDebits = v.totalCredits

\* The scenario: opening 10, an outflow of 2 tagged Rent, an inflow of 5 tagged
\* Income; closing 13, both totals 15.
C18_Witness ==
    /\ result.op = "buildStatementPDF"
    /\ result.arg = [expenses |-> <<[Category |-> "Rent", Amount |-> 0 - 2],
                                    [Category |-> "Income", Amount |-> 5]>>,
                     openingBalance |-> 10]
    /\ result.val.closingBalance = 13
    /\ result.val.totalDebits = 15
    /\ result.val.totalCredits = 15

(***************************************************************************)
(* Handler.GenerateReportPDF: the date window of a monthly report and the  *)
(* transactions it keeps. Times are seconds since 1970-01-01T00:00:00Z.    *)
(***************************************************************************)
\* time.Date(year, month, day, hour, min, sec, 0, time.UTC)
DateTime(y, m, d, hh, mm, ss) == Date(y, m, d) * 86400 + hh * 3600 + mm * 60 + ss

\* A window whose end falls on day startDate of the following month.
ReportWindowSameDay(year, month, startDate) ==
    IF startDate = 1
    THEN [startTime |-> DateTime(year, month, 1, 0, 0, 0),
          endTime   |-> DateTime(year, month + 1, 1, 23, 59, 59)]
    ELSE [startTime |-> DateTime(year, month, startDate, 0, 0, 0),
          endTime   |-> IF month = 12
                        THEN DateTime(year + 1, 1, startDate, 23, 59, 59)
                        ELSE DateTime(year, month + 1, startDate, 23, 59, 59)]

\* startTime and endTime for the year, the month and the start date read.
ReportWindow(year, month, startDate) ==
    IF startDate = 1
    THEN [startTime |-> DateTime(year, month, 1, 0, 0, 0),
          endTime   |-> DateTime(year, month + 1, 0, 23, 59, 59)]
    ELSE [startTime |-> DateTime(year, month, startDate, 0, 0, 0),
          endTime   |-> IF month = 12
                        THEN DateTime(year + 1, 1, startDate - 1, 23, 59, 59)
                        ELSE DateTime(year, month + 1, startDate - 1, 23, 59, 59)]

\* The transactions GetAllExpenses hands to the handler.
ReportExpenses ==
    << [ID |-> "t1", Category |-> "Rent",   Amount |-> 0 - 10, Date |-> DateTime(2024, 3, 5, 0, 0, 0)],
       [ID |-> "t2", Category |-> "Rent",   Amount |-> 0 - 10, Date |-> DateTime(2024, 3, 4, 23, 59, 59)],
       [ID |-> "t3", Category |-> "Food",   Amount |-> 0 - 10, Date |-> DateTime(2024, 4, 4, 23, 59, 59)],
       [ID |-> "t4", Category |-> "Rent",   Amount |-> 0 - 10, Date |-> DateTime(2024, 4, 5, 0, 0, 0)],
       [ID |-> "t5", Category |-> "Income", Amount |-> 10,     Date |-> DateTime(2024, 3, 10, 12, 0, 0)],
       [ID |-> "t6", Category |-> "Rent",   Amount |-> 0 - 10, Date |-> DateTime(2024, 3, 1, 0, 0, 0)],
       [ID |-> "t7", Category |-> "Rent",   Amount |-> 0 - 10, Date |-> DateTime(2024, 3, 31, 23, 59, 59)],
       [ID |-> "t8", Category |-> "Rent",   Amount |-> 0,      Date |-> DateTime(2024, 3, 10, 0, 0, 0)],
       [ID |-> "t9", Category |-> "Food",   Amount |-> 0 - 10, Date |-> DateTime(2024, 12, 31, 23, 59, 59)],
       [ID |-> "t10", Category |-> "Income", Amount |-> 10,    Date |-> DateTime(2025, 1, 4, 10, 0, 0)],
       [ID |-> "t11", Category |-> "Rent",  Amount |-> 0 - 10, Date |-> DateTime(2024, 2, 29, 8, 0, 0)],
       [ID |-> "t12", Category |-> "Rent",  Amount |-> 0 - 10, Date |-> DateTime(2024, 3, 1, 23, 59, 59)] >>

RECURSIVE FilterSeq(_, _)
FilterSeq(seq, keep) ==
    IF seq = <<>> THEN <<>>
    ELSE (IF Head(seq).ID \in keep THEN <<Head(seq)>> ELSE <<>>) \o FilterSeq(Tail(seq), keep)

\* The transactions handed to buildReportPDF.
ReportFilter(exps, transactionType, category, hasMonth, year, month, startDate) ==
    LET w == ReportWindow(year, month, startDate)
        typeMatch(exp) == \/ transactionType = "gains" /\ exp.Amount > 0
                          \/ transactionType = "expenses" /\ exp.Amount < 0
        categoryMatch(exp) == ~(category # "" /\ exp.Category # category)
        inRange(exp) == exp.Date >= w.startTime /\ exp.Date <= w.endTime
    IN  FilterSeq(exps, {exps[i].ID : i \in {j \in DOMAIN exps :
                            /\ typeMatch(exps[j])
                            /\ categoryMatch(exps[j])
                            /\ hasMonth => inRange(exps[j])}})

\* Report requests: type, category ("" when the request names none), whether year
\* and month are given, and the configured start date with whether GetStartDate
\* fails.
ReportRequests ==
    [transactionType : {"expenses", "gains"},
     category        : {"", "Rent"},
     hasMonth        : BOOLEAN,
     year            : {2023, 2024},
     month           : {2, 3, 12},
     startDate       : {1, 5, 31},
     startDateFails  : BOOLEAN]

InitReport ==
    /\ config = {}
    /\ defaults = [currency |-> "", start_date |-> ""]
    /\ expenses = {}
    /\ recurring_expenses = {}
    /\ now = Today0
    /\ tx = TxIdle
    /\ clients = <<>>
    /\ \E r \in ReportRequests : result = [NoResult EXCEPT !.op = "request", !.arg = r]

GenerateReportPDF ==
    LET r         == result.arg
        startDate == IF r.startDateFails THEN 1 ELSE r.startDate
    IN  /\ result.op = "request"
        /\ result' = [op |-> "GenerateReportPDF", err |-> "ok", id |-> "", arg |-> r,
                      val |-> [window |-> IF r.hasMonth
                                          THEN ReportWindow(r.year, r.month, startDate)
                                          ELSE <<>>,
                               expenses |-> ReportFilter(ReportExpenses, r.transactionType,
                                                         r.category, r.hasMonth, r.year,
                                                         r.month, startDate)]]
        /\ UNCHANGED <<config, defaults, expenses, recurring_expenses, now, tx, clients>>

SpecReport == InitReport /\ [][GenerateReportPDF]_vars

(***************************************************************************)
(* The report window and the transactions of a report, stated from the     *)
(* calendar: day d of a month is d - 1 days after its first day.           *)
(***************************************************************************)
FirstOfMonth(y, m) == DaysFromCivil(y, m, 1)

FirstOfFollowingMonth(y, m) == IF m = 12 THEN DaysFromCivil(y + 1, 1, 1)
                                         ELSE DaysFromCivil(y, m + 1, 1)

ExpectedWindow(y, m, startDate) ==
    IF startDate = 1
    THEN [startTime |-> FirstOfMonth(y, m) * 86400,
          endTime   |-> FirstOfFollowingMonth(y, m) * 86400 - 1]
    ELSE [startTime |-> (FirstOfMonth(y, m) + startDate - 1) * 86400,
          endTime   |-> (FirstOfFollowingMonth(y, m) + startDate - 2) * 86400 + 86399]

\* The start date the handler works with: the configured one, or 1 when reading
\* it fails.
StartDateRead(r) == IF r.startDateFails THEN 1 ELSE r.startDate

SignMatches(r, exp) == \/ r.transactionType = "gains" /\ exp.Amount > 0
                       \/ r.transactionType = "expenses" /\ exp.Amount < 0

InWindow(r, exp) ==
    LET w == ExpectedWindow(r.year, r.month, StartDateRead(r))
    IN  w.startTime <= exp.Date /\ exp.Date <= w.endTime

ReportedIDs == {result.val.expenses[i].ID : i \in DOMAIN result.val.expenses}

MaxImport == 3

MaxImportCounter == 0

MaxImportTable == 1

\* Items of an import: one with its own ID, and an outflow and a gain whose IDs
\* are generated.
ImportItems ==
    { Expense("e1", "", "rent feb", 0 - 200, "usd", Date(2024, 2, 1)),
      Expense("", "", "groceries", 0 - 30, "", Today0),
      Expense("", "", "salary", 500, "gbp", ZeroTime) }

ImportLists == UNION {[1..n -> ImportItems] : n \in 0..MaxImport}

\* The loop from its i-th item on: the configuration rows and the table it
\* leaves, the error it returns, the index of the item that failed (0 if none)
\* and the IDs under which the items it reached were inserted.
RECURSIVE AddEach(_, _, _, _, _)
AddEach(rows, table, list, faults, i) ==
    IF i > Len(list)
    THEN [config |-> rows, expenses |-> table, err |-> "ok", failed |-> 0, ids |-> <<>>]
    ELSE LET expense == list[i]
             isGain  == expense.Amount > 0
             bump    == IF expense.ID = "" THEN BumpCounter(rows, isGain, faults[i] = 1)
                        ELSE [config |-> rows, counter |-> 0]
             row     == ExpenseToInsert(expense, bump.counter, defaults, now)
             err     == IF faults[i] = 2 THEN "db_error"
                        ELSE IF row.ID \in IDsOf(table) THEN "duplicate_key" ELSE "ok"
         IN  IF err # "ok"
             THEN [config |-> bump.config, expenses |-> table, err |-> err, failed |-> i,
                   ids |-> <<row.ID>>]
             ELSE LET rest == AddEach(bump.config, table \cup {row}, list, faults, i + 1)
                  IN  [rest EXCEPT !.ids = <<row.ID>> \o @]

\* An import starts while the table and the counters are within the bounds.
ImportRoom ==
    /\ Cardinality(expenses) <= MaxImportTable
    /\ \A r \in config : /\ r.voucher_counter <= MaxImportCounter
                          /\ r.receipt_counter <= MaxImportCounter

\* The loop run inside one transaction that is rolled back on the first error.
AddMultipleExpensesAtomic(list, faults) ==
    LET out == AddEach(config, expenses, list, faults, 1)
    IN  /\ tx.pc = "idle"
        /\ ImportRoom
        /\ config' = IF out.err = "ok" THEN out.config ELSE config
        /\ expenses' = IF out.err = "ok" THEN out.expenses ELSE expenses
        /\ result' = [op |-> "AddMultipleExpenses", err |-> out.err, id |-> "", arg |-> list,
                      val |-> [failed |-> out.failed, ids |-> out.ids]]
        /\ UNCHANGED <<defaults, recurring_expenses, now, tx, clients>>

AddMultipleExpenses(list, faults) ==
    LET out == AddEach(config, expenses, list, faults, 1)
    IN  /\ tx.pc = "idle"
        /\ ImportRoom
        /\ config' = out.config
        /\ expenses' = out.expenses
        /\ result' = [op |-> "AddMultipleExpenses", err |-> out.err, id |-> "", arg |-> list,
                      val |-> [failed |-> out.failed, ids |-> out.ids]]
        /\ UNCHANGED <<defaults, recurring_expenses, now, tx, clients>>

NextImport ==
    \/ GetConfig
    \/ \E list \in ImportLists :
           \E faults \in [1..Len(list) -> InsertFaults] : AddMultipleExpenses(list, faults)

SpecImport == Init /\ [][NextImport]_vars

\* C20: AddMultipleExpenses adds the items in list order and is not atomic: when
\* the k-th item fails the call returns that item's error, the rows of items
\* 1..k-1 have been added to the table and stay there, and nothing else has been
\* added: items k..n are not stored.
C20_MultiAddStopsAtFirstError ==
    [][(result'.op = "AddMultipleExpenses" /\ result'.err # "ok") =>
          LET list == result'.arg
              k    == result'.val.failed
              ids  == result'.val.ids
              new  == expenses' \ expenses
          IN  /\ k \in 1..Len(list)
              /\ Len(ids) = k
              /\ expenses \subseteq expenses'
              /\ Cardinality(new) = k - 1
              /\ \A i \in 1..(k - 1) :
                     /\ list[i].ID # "" => ids[i] = list[i].ID
                     /\ \E row \in new : /\ row.ID = ids[i]
                                         /\ row.Description = list[i].Description
                                         /\ row.Amount = list[i].Amount
              /\ result'.err \in {"db_error", "duplicate_key"}
              /\ result'.err = "duplicate_key" => ids[k] \in IDsOf(expenses')
      ]_vars

\* A list of three whose second item fails on the insert: the first item is in
\* the table, the second and the third are not.
C20_Witness ==
    /\ result.op = "AddMultipleExpenses"
    /\ result.err = "db_error"
    /\ Len(result.arg) = 3
    /\ result.val.failed = 2
    /\ result.arg[1].ID = "e1" /\ result.arg[2].ID = "" /\ result.arg[3].ID = ""
    /\ IDsOf(expenses) = {"e1"}

(***************************************************************************)
(* Properties of the expansion with fromToday, stated on the schedule: the *)
(* start date and the dates reached from it by repeated interval steps.    *)
(***************************************************************************)
\* The j-th occurrence of the schedule, counted from 0.
RECURSIVE ScheduleDate(_, _)
ScheduleDate(recExp, j) ==
    IF j = 0 THEN recExp.StartDate
    ELSE StepDate(recExp.Interval, ScheduleDate(recExp, j - 1))

\* How many of the first N occurrences are dated strictly before today.
ElapsedOccurrences(recExp, today) ==
    Cardinality({j \in 0..(recExp.Occurrences - 1) : ScheduleDate(recExp, j) < today})

\* C21: with a recognised interval, N > 0 occurrences and fromToday = true, no
\* instance is dated before now, exactly N - k instances are produced where k is
\* the number of the schedule's first N occurrences dated strictly before now,
\* and the first instance is the schedule's first occurrence at or after now.
C21_FromTodaySkipsElapsed ==
    (/\ result.op = "generateExpensesFromRecurring"
     /\ result.arg.fromToday
     /\ Recognised(result.arg.rule.Interval)
     /\ result.arg.rule.Occurrences > 0)
    => LET v == result.val
           r == result.arg.rule
           k == ElapsedOccurrences(r, result.arg.today)
       IN  /\ Len(v) = r.Occurrences - k
           /\ \A i \in 1..Len(v) : v[i].Date >= result.arg.today
           /\ \A i \in 1..Len(v) : v[i].Date = ScheduleDate(r, k + i - 1)
           /\ Len(v) > 0 => /\ v[1].Date = ScheduleDate(r, k)
                            /\ \A j \in 0..(k - 1) : ScheduleDate(r, j) < result.arg.today

\* A weekly template of three occurrences that started eight days ago: two
\* occurrences have elapsed and one instance is produced, six days from now.
C21_Witness ==
    /\ result.op = "generateExpensesFromRecurring"
    /\ result.arg.fromToday
    /\ result.arg.rule.Interval = "weekly"
    /\ result.arg.rule.Occurrences = 3
    /\ result.arg.rule.StartDate = Today0 - 8
    /\ result.arg.today = Today0
    /\ Len(result.val) = 1
    /\ result.val[1].Date = Today0 + 6

\* C22: a template whose interval is not recognised never makes the expansion
\* fail: with fromToday = true and a start date before now the result is empty;
\* with fromToday = false, or a start date not before now, and N >= 1 the result
\* is exactly one instance, dated at the start date.
C22_UnrecognisedIntervalHalts ==
    (/\ result.op = "generateExpensesFromRecurring"
     /\ ~Recognised(result.arg.rule.Interval))
    => LET v == result.val
           r == result.arg.rule
           elapsed == result.arg.fromToday /\ r.StartDate < result.arg.today
       IN  /\ result.err = "ok"
           /\ elapsed => v = <<>>
           /\ (~elapsed /\ r.Occurrences >= 1) =>
                  /\ Len(v) = 1
                  /\ v[1].Date = r.StartDate
                  /\ v[1].RecurringID = r.ID

\* An "hourly" template of three occurrences starting today, expanded with
\* fromToday: one instance, dated today.
C22_Witness ==
    /\ result.op = "generateExpensesFromRecurring"
    /\ result.arg.fromToday
    /\ result.arg.rule.Interval = "hourly"
    /\ result.arg.rule.Occurrences = 3
    /\ result.arg.rule.StartDate = Today0
    /\ result.arg.today = Today0
    /\ Len(result.val) = 1
    /\ result.val[1].Date = Today0

\* C23: a monthly template starting 2024-01-31 with 3 occurrences, expanded with
\* fromToday = false, yields the dates 2024-01-31, 2024-03-02 and 2024-04-02: the
\* overflow of the added month is normalized into March, the shifted day-of-month
\* stays for the later instances, and no instance falls in February.
C23_MonthlyOverflowDates ==
    (/\ result.op = "generateExpensesFromRecurring"
     /\ ~result.arg.fromToday
     /\ result.arg.rule.Interval = "monthly"
     /\ result.arg.rule.Occurrences = 3
     /\ result.arg.rule.StartDate = DaysFromCivil(2024, 1, 31))
    => LET v == result.val
       IN  /\ Len(v) = 3
           /\ v[1].Date = DaysFromCivil(2024, 1, 31)
           /\ v[2].Date = DaysFromCivil(2024, 3, 2)
           /\ v[3].Date = DaysFromCivil(2024, 4, 2)
           /\ \A i \in 1..Len(v) : CivilFromDays(v[i].Date).month # 2

\* The expansion of that template has run and its second instance is dated in
\* March, two days after the end of February.
C23_Witness ==
    /\ result.op = "generateExpensesFromRecurring"
    /\ ~result.arg.fromToday
    /\ result.arg.rule.Interval = "monthly"
    /\ result.arg.rule.Occurrences = 3
    /\ CivilFromDays(result.arg.rule.StartDate) = [year |-> 2024, month |-> 1, day |-> 31]
    /\ Len(result.val) = 3
    /\ CivilFromDays(result.val[2].Date) = [year |-> 2024, month |-> 3, day |-> 2]
    /\ result.val[2].Date = DaysFromCivil(2024, 2, 29) + 2

(***************************************************************************)
(* generateExpensesFromRecurring run one loop iteration at a time, followed *)
(* by the AddRecurringExpense that stores the template.                    *)
(***************************************************************************)
\* The locals of the function: where it stands, the cursor, the count left, the
\* limit and the index of "for range limit", and the slice built so far.
Locals(pc, currentDate, occurrencesToGenerate, limit, i, out) ==
    [pc |-> pc, currentDate |-> currentDate, occurrencesToGenerate |-> occurrencesToGenerate,
     limit |-> limit, i |-> i, expenses |-> out]

InitExpandLoop ==
    /\ config = {}
    /\ defaults = [currency |-> "", start_date |-> ""]
    /\ expenses = {}
    /\ recurring_expenses = {}
    /\ now = Today0
    /\ tx = TxIdle
    /\ clients = <<>>
    /\ \E recExp \in ExpandTemplates, fromToday \in BOOLEAN :
           result = [op |-> "expanding", err |-> "ok", id |-> recExp.ID,
                     arg |-> [rule |-> recExp, fromToday |-> fromToday, today |-> now],
                     val |-> Locals(IF fromToday THEN "fastforward" ELSE "materialize",
                                    recExp.StartDate, recExp.Occurrences,
                                    recExp.Occurrences, 0, <<>>)]

Expanding(pc) == result.op = "expanding" /\ result.val.pc = pc

\* An iteration of the fast-forward loop whose default arm falls out of the switch
\* and goes round again.
FastForwardStepNoReturn ==
    LET recExp == result.arg.rule
        l      == result.val
    IN  /\ Expanding("fastforward")
        /\ IF l.currentDate < result.arg.today
              /\ (recExp.Occurrences = 0 \/ l.occurrencesToGenerate > 0)
           THEN result' = [result EXCEPT
                    !.val.currentDate = StepDate(recExp.Interval, @),
                    !.val.occurrencesToGenerate =
                        IF recExp.Occurrences > 0 /\ Recognised(recExp.Interval)
                        THEN @ - 1 ELSE @]
           ELSE result' = [result EXCEPT !.val.pc = "materialize",
                                         !.val.limit = l.occurrencesToGenerate]
        /\ UNCHANGED <<config, defaults, expenses, recurring_expenses, now, tx, clients>>

\* One test of the fast-forward loop's condition and, if it holds, one iteration.
FastForwardStep ==
    LET recExp == result.arg.rule
        l      == result.val
    IN  /\ Expanding("fastforward")
        /\ IF l.currentDate < result.arg.today
              /\ (recExp.Occurrences = 0 \/ l.occurrencesToGenerate > 0)
           THEN IF ~Recognised(recExp.Interval)
                THEN result' = [result EXCEPT !.val.pc = "done"]
                ELSE result' = [result EXCEPT
                         !.val.currentDate = StepDate(recExp.Interval, @),
                         !.val.occurrencesToGenerate =
                             IF recExp.Occurrences > 0 THEN @ - 1 ELSE @]
           ELSE result' = [result EXCEPT !.val.pc = "materialize",
                                         !.val.limit = l.occurrencesToGenerate]
        /\ UNCHANGED <<config, defaults, expenses, recurring_expenses, now, tx, clients>>

\* One test of "for range limit" and, if it holds, one iteration.
MaterializeStep ==
    LET recExp == result.arg.rule
        l      == result.val
    IN  /\ Expanding("materialize")
        /\ IF l.i < l.limit
           THEN IF ~Recognised(recExp.Interval)
                THEN result' = [result EXCEPT
                         !.val.expenses = Append(@, InstanceOf(recExp, l.currentDate)),
                         !.val.pc = "done"]
                ELSE result' = [result EXCEPT
                         !.val.expenses = Append(@, InstanceOf(recExp, l.currentDate)),
                         !.val.currentDate = StepDate(recExp.Interval, @),
                         !.val.i = @ + 1]
           ELSE result' = [result EXCEPT !.val.pc = "done"]
        /\ UNCHANGED <<config, defaults, expenses, recurring_expenses, now, tx, clients>>

\* The template just expanded is handed to AddRecurringExpense.
AddExpanded ==
    /\ Expanding("done")
    /\ \E u \in UUIDs : AddRecurringExpense(result.arg.rule, u, 0)

NextExpandLoop ==
    \/ FastForwardStep
    \/ MaterializeStep
    \/ AddExpanded
    \/ AddRecurringCopyIn(0)
    \/ AddRecurringCommit(0)

\* The function runs to its return once called: its loop iterations are not
\* postponed forever.
SpecExpandLoop ==
    InitExpandLoop /\ [][NextExpandLoop]_vars /\ WF_vars(FastForwardStep \/ MaterializeStep)

\* C24: generateExpensesFromRecurring terminates for every template and both
\* values of fromToday, occurrence counts 0 and below included, and returns the
\* expansion; with occurrence count 0 it returns no instance, and
\* AddRecurringExpense of such a template stores the rule with no instances.
C24_ExpansionTerminates ==
    /\ <>Expanding("done")
    /\ [](Expanding("done") =>
            /\ result.val.expenses =
                   generateExpensesFromRecurring(result.arg.rule, result.arg.fromToday,
                                                 result.arg.today)
            /\ result.arg.rule.Occurrences <= 0 => result.val.expenses = <<>>)
    /\ []((Finished("AddRecurringExpense") /\ result.arg.rule # NoRule
             /\ result.arg.rule.Occurrences = 0) =>
            /\ result.err = "ok"
            /\ result.arg.rule \in recurring_expenses
            /\ InstancesOf(expenses, result.id) = {})

\* An indefinite daily template that started eight days ago was fast-forwarded to
\* today with fromToday and returned nothing.
C24_Witness ==
    /\ Expanding("done")
    /\ result.arg.fromToday
    /\ result.arg.rule.Occurrences = 0
    /\ result.arg.rule.Interval = "daily"
    /\ result.arg.rule.StartDate = Today0 - 8
    /\ result.val.currentDate = Today0
    /\ result.val.expenses = <<>>

(***************************************************************************)
(* Configuration updates from several goroutines: updateConfig reads the   *)
(* configuration with GetConfig and writes it back with saveConfig as two  *)
(* separate statements, with no lock and no transaction around them.       *)
(***************************************************************************)
\* The updates the goroutines call: UpdateCurrency, UpdateCategories and
\* UpdateStartDate with valid values.
ConfigUpdates ==
    { [op |-> "UpdateCurrency",   field |-> "Currency",   value |-> "eur"],
      [op |-> "UpdateCategories", field |-> "Categories", value |-> <<"Food">>],
      [op |-> "UpdateStartDate",  field |-> "StartDate",  value |-> 5] }

UpdaterIdle == [pc |-> "idle", op |-> "none", field |-> "", value |-> "", cfg |-> BaseConfig,
                err |-> "ok"]

InitConfigConcurrent ==
    /\ config = {}
    /\ defaults = [currency |-> "", start_date |-> ""]
    /\ expenses = {}
    /\ recurring_expenses = {}
    /\ now = Today0
    /\ tx = TxIdle
    /\ result = NoResult
    /\ clients = [c \in Clients |-> UpdaterIdle]

\* A goroutine enters one of the update functions.
UpdaterCall(c, u) ==
    /\ clients[c].pc = "idle"
    /\ clients' = [clients EXCEPT ![c] = [pc |-> "GetConfig", op |-> u.op, field |-> u.field,
                                          value |-> u.value, cfg |-> BaseConfig,
                                          err |-> "ok"]]
    /\ UNCHANGED <<config, defaults, expenses, recurring_expenses, now, tx, result>>

\* updateConfig: s.GetConfig(), then the updater on the Config it returned.
UpdaterGetConfig(c, f) ==
    LET g == GetConfigResult(config, defaults, f)
    IN  /\ clients[c].pc = "GetConfig"
        /\ config' = g.config
        /\ defaults' = g.defaults
        /\ clients' = IF g.err # "ok"
                      THEN [clients EXCEPT ![c].pc = "returned", ![c].err = g.err]
                      ELSE [clients EXCEPT ![c].pc = "saveConfig",
                                           ![c].cfg = [g.cfg EXCEPT ![clients[c].field] =
                                                                        clients[c].value]]
        /\ UNCHANGED <<expenses, recurring_expenses, now, tx, result>>

\* updateConfig: s.saveConfig(config), and the return.
UpdaterSaveConfig(c, f) ==
    LET sv == saveConfig(config, clients[c].cfg, f = 1)
    IN  /\ clients[c].pc = "saveConfig"
        /\ config' = sv.config
        /\ defaults' = sv.defaults
        /\ clients' = [clients EXCEPT ![c].pc = "returned", ![c].err = sv.err]
        /\ UNCHANGED <<expenses, recurring_expenses, now, tx, result>>

NextConfigConcurrent ==
    \/ \E c \in Clients, u \in ConfigUpdates : UpdaterCall(c, u)
    \/ \E c \in Clients, f \in OneFault : UpdaterGetConfig(c, f)
    \/ \E c \in Clients, f \in OneFault : UpdaterSaveConfig(c, f)

SpecConfigConcurrent == InitConfigConcurrent /\ [][NextConfigConcurrent]_vars

\* C25: when two configuration updates that touch different fields run at the
\* same time and both return success, the stored configuration reflects both
\* updates.
C25_NoLostUpdate ==
    \A c, d \in Clients :
        (/\ c # d
         /\ clients[c].pc = "returned" /\ clients[c].err = "ok"
         /\ clients[d].pc = "returned" /\ clients[d].err = "ok"
         /\ clients[c].field # clients[d].field)
        => \A r \in config : /\ ConfigOfRow(r)[clients[c].field] = clients[c].value
                             /\ ConfigOfRow(r)[clients[d].field] = clients[d].value

(***************************************************************************)
(* Histories of AddRecurringExpense and UpdateRecurringExpense alone.      *)
(***************************************************************************)
\* Templates the two handlers are called with: every start date, interval and
\* count of RecurringInputs, and two more versions of template r1.
RecurringHistoryInputs ==
    RecurringInputs \cup
    { RecurringExpense("r1", "club", 0 - 15, "usd", Today0 + 1, "daily", 1),
      RecurringExpense("r1", "dues", 0 - 7, "usd", Today0, "yearly", 3) }

NextRecurringHistory ==
    \/ Tick
    \/ \E r \in RecurringHistoryInputs, u \in UUIDs, f \in OneFault : AddRecurringExpense(r, u, f)
    \/ \E id \in UpdateRecurringIDs, r \in RecurringHistoryInputs, all \in BOOLEAN,
          f \in OneFault : UpdateRecurringExpense(id, r, all, f)
    \/ \E f \in OneFault : AddRecurringCopyIn(f)
    \/ \E f \in OneFault : AddRecurringCommit(f)
    \/ \E f \in OneFault : UpdateRecurringDelete(f)
    \/ \E f \in OneFault : UpdateRecurringCopyIn(f)
    \/ \E f \in OneFault : UpdateRecurringCommit(f)

SpecRecurringHistory == Init /\ [][NextRecurringHistory]_vars

NextCounters ==
    \/ GetConfig
    \/ \E e \in ImportItems, f \in InsertFaults : AddExpense(e, f)
    \/ \E id \in IDsOf(expenses) \cup {UnknownExpenseID}, f \in OneFault : RemoveExpense(id, f)
    \/ \E c \in DefaultCurrencyInputs, f \in Faults : UpdateCurrency(c, f)

SpecCounters == Init /\ [][NextCounters]_vars

\* The IDs GenerateTransactionID makes from the counter values within the bound.
GeneratedIDs == {GenerateTransactionID(isGain, n) : isGain \in BOOLEAN, n \in 0..(MaxCounter + 1)}

\* Generated IDs known to have been issued: those of stored transactions, and the
\* one the last operation issued or removed.
IssuedIDs ==
    (IDsOf(expenses) \cap GeneratedIDs)
    \cup (IF /\ result.op \in {"AddExpense", "RemoveExpense"}
             /\ result.id \in GeneratedIDs
          THEN {result.id} ELSE {})

\* C27: over any sequential history (adds with empty or caller-supplied IDs,
\* removals, failed inserts, configuration updates) the voucher and receipt
\* counters never decrease, and an ID generated for an add is none of the
\* generated IDs issued before, also when the transaction that held it was removed.
C27_CountersMonotoneIDsFresh ==
    [][/\ \A r \in config : \E q \in config' : /\ q.voucher_counter >= r.voucher_counter
                                               /\ q.receipt_counter >= r.receipt_counter
       /\ (result'.op = "AddExpense" /\ result'.arg[1].ID = "" /\ result' # result)
              => result'.id \notin IssuedIDs
      ]_vars

(***************************************************************************)
(* The report windows of two consecutive months, as two requests to        *)
(* Handler.GenerateReportPDF compute them under one configured start date. *)
(***************************************************************************)
WindowYears == {2023, 2024}

WindowRequests == [year : WindowYears, month : 1..12, startDate : 1..31]

InitWindows ==
    /\ config = {}
    /\ defaults = [currency |-> "", start_date |-> ""]
    /\ expenses = {}
    /\ recurring_expenses = {}
    /\ now = Today0
    /\ tx = TxIdle
    /\ clients = <<>>
    /\ \E r \in WindowRequests : result = [NoResult EXCEPT !.op = "request", !.arg = r]

\* The request for the month after (year, month).
FollowingRequest(r) ==
    IF r.month = 12 THEN [r EXCEPT !.year = @ + 1, !.month = 1]
    ELSE [r EXCEPT !.month = @ + 1]

\* The window of the requested month and that of the request for the month after.
ReportConsecutiveMonths ==
    LET r == result.arg
        n == FollowingRequest(r)
    IN  /\ result.op = "request"
        /\ result' = [op |-> "GenerateReportPDF", err |-> "ok", id |-> "", arg |-> r,
                      val |-> [this |-> ReportWindow(r.year, r.month, r.startDate),
                               following |-> ReportWindow(n.year, n.month, n.startDate)]]
        /\ UNCHANGED <<config, defaults, expenses, recurring_expenses, now, tx, clients>>

SpecWindows == InitWindows /\ [][ReportConsecutiveMonths]_vars

Within(w, t) == w.startTime <= t /\ t <= w.endTime

\* C28: for every start date 1..31 (also one past the end of the requested month)
\* and every month, the window of the following month starts on the day after
\* the last day of the month's window: windows begin at 00:00:00 and end at
\* 23:59:59, none is empty, and an instant at whole-second precision in either
\* window lies in that one only.
C28_WindowsAdjacent ==
    result.op = "GenerateReportPDF" =>
        LET this == result.val.this
            following == result.val.following
        IN  /\ this.startTime % 86400 = 0
            /\ this.endTime % 86400 = 86399
            /\ this.startTime < this.endTime
            /\ following.startTime = this.endTime + 1
            /\ following.startTime \div 86400 = this.endTime \div 86400 + 1
            /\ \A t \in {this.startTime, this.endTime, following.startTime,
                         following.endTime, this.endTime - 86400, following.startTime + 86400} :
                   Within(this, t) # Within(following, t)

\* Start date 31 and February 2024: the window runs from March 2 to March 30 and
\* the window of March starts on March 31.
C28_Witness ==
    /\ result.op = "GenerateReportPDF"
    /\ result.arg = [year |-> 2024, month |-> 2, startDate |-> 31]
    /\ result.val.this = [startTime |-> DaysFromCivil(2024, 3, 2) * 86400,
                          endTime   |-> DaysFromCivil(2024, 3, 30) * 86400 + 86399]
    /\ result.val.following.startTime = DaysFromCivil(2024, 3, 31) * 86400

(***************************************************************************)
(* databaseStore.RemoveMultipleExpenses: one DELETE ... WHERE id = ANY.    *)
(***************************************************************************)
MaxRemoveIDs == 2

\* The IDs a removal names: stored or not, in any order, repeated or not.
RemoveIDs == {"e1", "e3", UnknownExpenseID}

RemoveLists == UNION {[1..n -> RemoveIDs] : n \in 0..MaxRemoveIDs}

\* A removal that refuses a list naming an ID that is not stored.
RemoveMultipleExpensesStrict(ids, f) ==
    LET err == IF Len(ids) = 0 THEN "ok"
               ELSE IF f = 1 THEN "db_error"
               ELSE IF ~(SeqToSet(ids) \subseteq IDsOf(expenses)) THEN "not_found"
               ELSE "ok"
    IN  /\ tx.pc = "idle"
        /\ expenses' = IF err = "ok" THEN {r \in expenses : r.ID \notin SeqToSet(ids)}
                       ELSE expenses
        /\ result' = [op |-> "RemoveMultipleExpenses", err |-> err, id |-> "",
                      arg |-> <<ids>>, val |-> <<>>]
        /\ UNCHANGED <<config, defaults, recurring_expenses, now, tx, clients>>

\* f = 1: the DELETE fails.
RemoveMultipleExpenses(ids, f) ==
    LET err == IF Len(ids) = 0 THEN "ok"
               ELSE IF f = 1 THEN "db_error" ELSE "ok"
    IN  /\ tx.pc = "idle"
        /\ expenses' = IF err = "ok" THEN {r \in expenses : r.ID \notin SeqToSet(ids)}
                       ELSE expenses
        /\ result' = [op |-> "RemoveMultipleExpenses", err |-> err, id |-> "",
                      arg |-> <<ids>>, val |-> <<>>]
        /\ UNCHANGED <<config, defaults, recurring_expenses, now, tx, clients>>

NextRemoveMany ==
    \/ GetConfig
    \/ \E e \in ExpenseInputs : AddExpense(e, 0)
    \/ \E r \in RecurringInputs, u \in UUIDs : AddRecurringExpense(r, u, 0)
    \/ AddRecurringCopyIn(0)
    \/ AddRecurringCommit(0)
    \/ \E ids \in RemoveLists, f \in OneFault : RemoveMultipleExpenses(ids, f)

SpecRemoveMany == Init /\ [][NextRemoveMany]_vars

\* C29: RemoveMultipleExpenses(ids) removes exactly the stored transactions whose
\* ID is in ids and leaves every other transaction, every template and the
\* configuration as they were; naming IDs that are not stored is no error, and an
\* empty list changes nothing and succeeds.
C29_RemoveManyExact ==
    [][(result'.op = "RemoveMultipleExpenses" /\ tx.pc = "idle" /\ tx'.pc = "idle") =>
          LET ids == result'.arg[1]
          IN  /\ result'.err \in {"ok", "db_error"}
              /\ result'.err = "ok" =>
                     /\ \A e \in expenses : e \in expenses' <=> e.ID \notin SeqToSet(ids)
                     /\ expenses' \subseteq expenses
              /\ result'.err # "ok" => expenses' = expenses
              /\ ids = <<>> => result'.err = "ok" /\ expenses' = expenses
              /\ recurring_expenses' = recurring_expenses
              /\ config' = config
              /\ defaults' = defaults
      ]_vars

\* A removal naming e1 and an ID that is not stored has succeeded: e1 is gone, e3
\* and the instance of template r1 are still stored, and so is the template.
C29_Witness ==
    /\ result.op = "RemoveMultipleExpenses"
    /\ result.err = "ok"
    /\ result.arg[1] = <<"e1", UnknownExpenseID>>
    /\ IDsOf(expenses) = {"e3", ""}
    /\ "r1" \in IDsOf(recurring_expenses)
    /\ config # {}

(***************************************************************************)
(* The four updates that go through updateConfig, among the operations     *)
(* that set the rest of the store's state.                                 *)
(***************************************************************************)
CategoriesInputs == {<<"Food">>}

UpdateCategories(categories, f) ==
    UpdateField("UpdateCategories", "Categories", categories, TRUE, f)

\* An outflow whose ID is generated from the voucher counter.
CountedExpenses == {e \in ImportItems : e.ID = "" /\ e.Amount < 0}

NextConfigFrame ==
    \/ GetConfig
    \/ \E c \in CategoriesInputs, f \in OneFault : UpdateCategories(c, f)
    \/ \E f \in OneFault : UpdateCurrency("eur", f)
    \/ \E f \in OneFault : UpdateStartDate(5, f)
    \/ \E f \in OneFault : UpdateLanguage("ms", f)
    \/ UpdateOpeningBalance(1000, 0)
    \/ UpdateUseManualBalances(TRUE, 0)
    \/ \E m \in ManualBalancesInputs \ {EmptyBalances} : UpdateManualBalances(m, 0)
    \/ \E e \in CountedExpenses : AddExpense(e, 0)
    \/ \E r \in DefaultedTemplates, u \in UUIDs : AddRecurringExpense(r, u, 0)
    \/ AddRecurringCopyIn(0)
    \/ AddRecurringCommit(0)

SpecConfigFrame == Init /\ [][NextConfigFrame]_vars

\* The configuration columns as a reader finds them: those of the stored row, or
\* of the base configuration while no row is stored.
ObservedRow(rows) ==
    IF rows = {} THEN CHOOSE r \in UpsertRow({}, BaseConfig) : TRUE
    ELSE CHOOSE r \in rows : TRUE

ConfigColumns ==
    {"categories", "currency", "start_date", "voucher_counter", "receipt_counter",
     "opening_balance", "use_manual_balances", "manual_balances"}

\* The column an update is aimed at; UpdateLanguage has none.
TargetColumn(op) ==
    CASE op = "UpdateCategories" -> {"categories"}
      [] op = "UpdateCurrency"   -> {"currency"}
      [] op = "UpdateStartDate"  -> {"start_date"}
      [] OTHER                   -> {}

ConfigUpdateOps == {"UpdateCategories", "UpdateCurrency", "UpdateStartDate", "UpdateLanguage"}

\* C30: a successful UpdateCategories, UpdateCurrency, UpdateStartDate or
\* UpdateLanguage changes only the field it is aimed at: the counters, the
\* opening balance, the manual-balances toggle and map, the other configuration
\* fields and every stored transaction and template are as before.
C30_ConfigUpdateFrame ==
    [][(result'.op \in ConfigUpdateOps /\ result'.err = "ok"
          /\ tx.pc = "idle" /\ tx'.pc = "idle") =>
          /\ Cardinality(config') = 1
          /\ \A c \in ConfigColumns \ TargetColumn(result'.op) :
                 ObservedRow(config')[c] = ObservedRow(config)[c]
          /\ expenses' = expenses
          /\ recurring_expenses' = recurring_expenses
      ]_vars

\* UpdateCurrency("eur") has succeeded on a store whose voucher counter is 1,
\* whose opening balance is 1000 and which holds a transaction and a template:
\* the row has the new currency and the counter and balance it had.
C30_Witness ==
    /\ result.op = "UpdateCurrency"
    /\ result.err = "ok"
    /\ result.arg = <<"eur">>
    /\ \E r \in config : /\ r.currency = "eur"
                         /\ r.voucher_counter = 1
                         /\ r.opening_balance = 1000
                         /\ r.categories = <<"Food">>
    /\ "BAU-0001" \in IDsOf(expenses)
    /\ recurring_expenses # {}

====
